---------------------------- MODULE Spec2Model ----------------------------
(***************************************************************************)
(* Model of the VOTEX speech post-processing server                        *)
(* (src/example_browserclient/server.py and the modules it drives).        *)
(*                                                                         *)
(* Text.  A text is a sequence of whitespace-separated tokens.  A token is *)
(* a record [w, cap, p]: w is the token's word in lower case, cap says     *)
(* whether its first letter is upper case, p is the punctuation that       *)
(* trails the word.  "Hey, i gotta go." is                                 *)
(*   << [w |-> "hey", cap |-> TRUE, p |-> ","], [w |-> "i", ...], ... >>.  *)
(* str.lower() clears every cap, text[0].upper() sets the first one.       *)
(* Word tables (fillers, slang, time words ...) are the source's tables    *)
(* restricted to the words that texts of the model can hold.               *)
(*                                                                         *)
(* Time.  One tick is 0.05 s, so every time constant of run_recorder is a  *)
(* whole number of ticks.                                                  *)
(***************************************************************************)
EXTENDS Integers, Sequences, FiniteSets, TLC

(***************************************************************************)
(* Tokens and texts                                                        *)
(***************************************************************************)
Tok(word) == [w |-> word, cap |-> FALSE, p |-> ""]

CapTok(word) == [w |-> word, cap |-> TRUE, p |-> ""]

EmptyText == << >>

\* str.lower() on one token and on a whole text
LowerTok(t) == [t EXCEPT !.cap = FALSE]

Lower(text) == [i \in 1..Len(text) |-> LowerTok(text[i])]

\* text[0].upper() + text[1:]
CapitalizeFirst(text) ==
    IF text = EmptyText THEN text
    ELSE [text EXCEPT ![1] = [@ EXCEPT !.cap = (text[1].w # "")]]

\* the characters of a token: its word, then its punctuation
TokLen(t) == Len(t.w) + Len(t.p)

RECURSIVE TextLen(_)
\* len(' '.join(tokens))
TextLen(text) ==
    IF text = EmptyText THEN 0
    ELSE IF Len(text) = 1 THEN TokLen(text[1])
    ELSE TokLen(text[1]) + 1 + TextLen(Tail(text))

(***************************************************************************)
(* fuzz.ratio: round(100 * 2M / T), M the matched characters of the two    *)
(* strings and T their total length.  The strings are compared as          *)
(* sequences of items (word, punctuation, blank): M is the heaviest        *)
(* common subsequence of items, which is the character count matched when  *)
(* different words share no letters.  Words that do share letters ("gotta" *)
(* and "go": 57 by fuzz.ratio, 0 here) score lower here than in the        *)
(* library; for the texts of the model both scores are on the same side    *)
(* of score_thresh.                                                        *)
(***************************************************************************)
RECURSIVE Items(_)
Items(seg) ==
    IF seg = EmptyText THEN << >>
    ELSE LET t == seg[1]
             head == (IF t.w = "" THEN << >> ELSE <<t.w>>)
                     \o (IF t.p = "" THEN << >> ELSE <<t.p>>)
         IN  IF Len(seg) = 1 THEN head
             ELSE head \o <<" ">> \o Items(Tail(seg))

Max(a, b) == IF a >= b THEN a ELSE b

Min(a, b) == IF a <= b THEN a ELSE b

MatchedChars(a, b) ==
    LET m == Len(a)
        n == Len(b)
        L[i \in 0..m, j \in 0..n] ==
            IF i = 0 \/ j = 0 THEN 0
            ELSE IF a[i] = b[j] THEN L[i-1, j-1] + Len(a[i])
            ELSE Max(L[i-1, j], L[i, j-1])
    IN  L[m, n]

fuzz_ratio(seg, next_seg) ==
    LET T == TextLen(seg) + TextLen(next_seg)
        M == MatchedChars(Items(seg), Items(next_seg))
    IN  IF T = 0 THEN 100 ELSE (400 * M + T) \div (2 * T)

(***************************************************************************)
(* server.py: dedupe_repetition and remove_immediate_duplicates            *)
(***************************************************************************)
DedupWindow == 8

ScoreThresh == 85

RECURSIVE remove_immediate_duplicates(_)
remove_immediate_duplicates(text) ==
    IF Len(text) <= 1 THEN text
    ELSE LET n == Len(text)
             front == remove_immediate_duplicates(SubSeq(text, 1, n - 1))
         IN  IF LowerTok(text[n]) # LowerTok(text[n-1])
             THEN Append(front, text[n])
             ELSE front

\* the largest k in 1..w whose window [i, i+k) is repeated by [i+k, i+2k), or 0
RepeatLength(tokens, i, w) ==
    LET N == Len(tokens)
        hits == {k \in 1..w :
                    /\ i + 2 * k - 1 <= N
                    /\ fuzz_ratio(Lower(SubSeq(tokens, i, i + k - 1)),
                                  Lower(SubSeq(tokens, i + k, i + 2 * k - 1)))
                         >= ScoreThresh}
    IN  IF hits = {} THEN 0 ELSE CHOOSE k \in hits : \A h \in hits : h <= k

RECURSIVE DedupScan(_, _)
\* the while loop of dedupe_repetition from (1-based) position i: out_tokens
DedupScan(tokens, i) ==
    IF i > Len(tokens) THEN << >>
    ELSE LET w == Min(DedupWindow, Len(tokens) - i + 1)
             k == RepeatLength(tokens, i, w)
         IN  IF k > 0
             THEN SubSeq(tokens, i, i + k - 1) \o DedupScan(tokens, i + 2 * k)
             ELSE <<tokens[i]>> \o DedupScan(tokens, i + 1)

\* dedupe_repetition returning the lower-cased tokens it compared
dedupe_repetitionLowered(text) ==
    IF Len(text) <= 1 THEN text
    ELSE remove_immediate_duplicates(Lower(DedupScan(text, 1)))

dedupe_repetition(text) ==
    IF Len(text) <= 1 THEN text
    ELSE remove_immediate_duplicates(DedupScan(text, 1))

(***************************************************************************)
(* disfluency_filter.py: DisfluencyFilter                                  *)
(***************************************************************************)
FillerWords ==
    {"umm", "uhh", "ehh", "uh", "um", "er", "ah", "oh", "like", "so", "well",
     "actually", "basically", "literally", "totally", "really", "very",
     "just", "right", "okay", "alright"}

FillerPhrases ==
    {<<"you", "know">>, <<"kind", "of">>, <<"sort", "of">>, <<"i", "mean">>,
     <<"you", "see">>}

\* the plain word of a token as text.lower().split() sees it: the token
\* equals a bare word only when no punctuation is attached
IsWord(t, word) == t.w = word /\ t.p = ""

\* how many tokens from position i repeat the word at i with only blanks
\* between them; the stutter regex \b(\w+)(\s+\1){2,}\b needs three
RECURSIVE SameRun(_, _)
SameRun(text, i) ==
    IF i >= Len(text) \/ text[i].p # "" \/ text[i+1].w # text[i].w THEN 1
    ELSE 1 + SameRun(text, i + 1)

RECURSIVE StutterScan(_, _)
StutterScan(text, i) ==
    IF i > Len(text) THEN << >>
    ELSE LET r == IF text[i].w = "" THEN 1 ELSE SameRun(text, i)
         IN  IF r >= 3
             THEN <<[text[i] EXCEPT !.p = text[i + r - 1].p]>>
                      \o StutterScan(text, i + r)
             ELSE <<text[i]>> \o StutterScan(text, i + 1)

remove_stutters(text) == StutterScan(text, 1)

RECURSIVE FillerScan(_, _)
FillerScan(words, i) ==
    IF i > Len(words) THEN << >>
    ELSE IF /\ i + 1 <= Len(words)
            /\ words[i].p = "" /\ words[i+1].p = ""
            /\ <<words[i].w, words[i+1].w>> \in FillerPhrases
         THEN FillerScan(words, i + 2)
    ELSE IF words[i].p = "" /\ words[i].w \in FillerWords
         THEN FillerScan(words, i + 1)
    ELSE <<words[i]>> \o FillerScan(words, i + 1)

remove_fillers(text) == FillerScan(Lower(text), 1)

clean_text(text) == CapitalizeFirst(remove_fillers(remove_stutters(text)))

(***************************************************************************)
(* grammar_processor.py: GrammarProcessor                                  *)
(***************************************************************************)
\* re.sub(r'\b<first>\s+<second>\b', '<first> <to>'): a bare word `first`
\* followed by the word `second` (whatever trails it)
RECURSIVE SubPair(_, _, _, _)
SubPair(text, firsts, second, to) ==
    IF Len(text) <= 1 THEN text
    ELSE IF text[1].p = "" /\ text[1].w \in firsts /\ text[2].w = second
         THEN <<text[1], [text[2] EXCEPT !.w = to]>>
                  \o SubPair(Tail(Tail(text)), firsts, second, to)
    ELSE <<text[1]>> \o SubPair(Tail(text), firsts, second, to)

\* re.sub(r'\b<from>\s+(<nexts>)\b', r"<to> \1"): the bare word `from`
\* before one of `nexts` becomes `to`
RECURSIVE SubBefore(_, _, _, _)
SubBefore(text, from, nexts, to) ==
    IF Len(text) <= 1 THEN text
    ELSE IF text[1].p = "" /\ text[1].w = from /\ text[2].w \in nexts
         THEN <<[text[1] EXCEPT !.w = to], text[2]>>
                  \o SubBefore(Tail(Tail(text)), from, nexts, to)
    ELSE <<text[1]>> \o SubBefore(Tail(text), from, nexts, to)

RECURSIVE SplitAlot(_)
\* re.sub(r'\balot\b', 'a lot')
SplitAlot(text) ==
    IF text = EmptyText THEN text
    ELSE IF text[1].w = "alot"
         THEN <<Tok("a"), [text[1] EXCEPT !.w = "lot"]>> \o SplitAlot(Tail(text))
    ELSE <<text[1]>> \o SplitAlot(Tail(text))

fix_common_mistakes(text) ==
    LET t1 == SubPair(text, {"could"}, "of", "have")
        t2 == SubPair(t1, {"should"}, "of", "have")
        t3 == SubPair(t2, {"would"}, "of", "have")
        t4 == SplitAlot(t3)
        t5 == SubBefore(t4, "your", {"going", "coming", "doing"}, "you're")
        t6 == SubBefore(t5, "its", {"going", "coming", "doing"}, "it's")
        t7 == SubBefore(t6, "their", {"is", "are", "was", "were"}, "there")
    IN  SubBefore(t7, "there", {"going", "coming"}, "they're")

\* re.sub(r"\b<a>\s+<b>\s+<c>\b", "<a> <b> <to>")
RECURSIVE SubTriple(_, _, _, _, _)
SubTriple(text, a, b, c, to) ==
    IF Len(text) <= 2 THEN text
    ELSE IF /\ text[1].p = "" /\ text[1].w = a
            /\ text[2].p = "" /\ text[2].w = b
            /\ text[3].w = c
         THEN <<text[1], text[2], [text[3] EXCEPT !.w = to]>>
                  \o SubTriple(SubSeq(text, 4, Len(text)), a, b, c, to)
    ELSE <<text[1]>> \o SubTriple(Tail(text), a, b, c, to)

fix_double_negatives(text) ==
    LET t1 == SubTriple(text, "don't", "have", "no", "any")
        t2 == SubTriple(t1, "didn't", "have", "no", "any")
    IN  SubTriple(t2, "can't", "see", "nothing", "anything")

time_words ==
    {"today", "tomorrow", "yesterday", "tonight", "now", "later", "soon",
     "morning", "afternoon", "evening", "night", "week", "month", "year",
     "monday", "tuesday", "wednesday", "thursday", "friday", "saturday",
     "sunday"}

frequency_adverbs ==
    {"always", "usually", "often", "sometimes", "rarely", "never",
     "frequently", "occasionally", "seldom"}

Auxiliaries == {"am", "is", "are", "was", "were", "have", "has", "had"}

\* words[i].lower() in <list>: the whole token, punctuation included
TokIn(t, words) == t.p = "" /\ t.w \in words

RECURSIVE ReorderTimeCopies(_, _)
\* ReorderTime writing the noun over the time word without moving the latter
ReorderTimeCopies(words, i) ==
    IF i > Len(words) - 2 THEN words
    ELSE IF TokIn(words[i], {"a", "an", "the"}) /\ TokIn(words[i+1], time_words)
         THEN ReorderTimeCopies([words EXCEPT ![i+1] = words[i+2]], i + 1)
    ELSE ReorderTimeCopies(words, i + 1)

RECURSIVE ReorderTime(_, _)
\* pattern 1 of fix_word_order, the while loop from (1-based) index i
ReorderTime(words, i) ==
    IF i > Len(words) - 2 THEN words
    ELSE IF TokIn(words[i], {"a", "an", "the"}) /\ TokIn(words[i+1], time_words)
         THEN ReorderTime([words EXCEPT ![i+1] = words[i+2],
                                        ![i+2] = words[i+1]], i + 1)
    ELSE ReorderTime(words, i + 1)

RECURSIVE SwapAdverbs(_, _)
\* pattern 2 of fix_word_order, the for loop from (1-based) index i
SwapAdverbs(words, i) ==
    IF i > Len(words) - 1 THEN words
    ELSE IF TokIn(words[i], frequency_adverbs) /\ ~TokIn(words[i-1], Auxiliaries)
         THEN SwapAdverbs([words EXCEPT ![i] = words[i-1],
                                        ![i-1] = words[i]], i + 1)
    ELSE SwapAdverbs(words, i + 1)

fix_word_order(text) == SwapAdverbs(ReorderTime(text, 1), 2)

\* the words of the model's texts that begin with a, e, i, o or u
VowelInitial ==
    {"a", "an", "i", "i'm", "of", "um", "uh", "umbrella", "apple", "always",
     "evening", "afternoon", "often", "occasionally", "usually", "is", "are",
     "am", "it's", "its", "alot", "any", "anything", "everyone", "essentially",
     "okay", "ok", "obtain", "inquire", "assist", "if", "absolutely", "ask"}

vowel_sounds == {"a", "e", "i", "o", "u", "hour", "honest", "honor"}

\* next_word_lower[0] in 'aeiou' or next_word_lower in vowel_sounds
SoundsVowel(t) == t.w # "" /\ (t.w \in VowelInitial \/ t.w \in vowel_sounds)

\* next_word_lower[0] not in 'aeiou' and next_word_lower not in vowel_sounds
SoundsConsonant(t) == t.w # "" /\ t.w \notin VowelInitial /\ t.w \notin vowel_sounds

RECURSIVE ArticleScan(_, _, _)
\* the for loop of fix_articles from (1-based) index i; fixed is fixed_words
ArticleScan(words, i, fixed) ==
    IF i > Len(words) THEN fixed
    ELSE LET prev == IF i > 1 THEN words[i-1] ELSE Tok("")
             n == Len(fixed)
             fixed2 ==
                 IF i > 1 /\ IsWord(prev, "a")
                 THEN IF SoundsVowel(words[i])
                      THEN [fixed EXCEPT ![n] = [@ EXCEPT !.w = "an"]]
                      ELSE fixed
                 ELSE IF i > 1 /\ IsWord(prev, "an")
                 THEN IF SoundsConsonant(words[i])
                      THEN [fixed EXCEPT ![n] = [@ EXCEPT !.w = "a"]]
                      ELSE fixed
                 ELSE fixed
         IN  ArticleScan(words, i + 1, Append(fixed2, words[i]))

fix_articles(text) == ArticleScan(text, 1, << >>)

\* punctuation that ends in one of . ! ?
EndsSentence(p) == p \in {".", "!", "?", ",.", ",!", ",?"}

\* the words re.sub(r'\bi\b', 'I') rewrites: "i" alone or before an apostrophe
PronounI == {"i", "i'm", "i'll", "i'd", "i've"}

ProperNames ==
    {"monday", "tuesday", "wednesday", "thursday", "friday", "saturday",
     "sunday", "january", "february", "march", "april", "may", "june", "july",
     "august", "september", "october", "november", "december"}

\* capital after a sentence end, capital "I" (both also in
\* AutoFormatter.capitalize_sentences)
CapInside(text) ==
    [i \in 1..Len(text) |->
        IF \/ (i > 1 /\ EndsSentence(text[i-1].p) /\ text[i].w # "")
           \/ text[i].w \in PronounI
        THEN [text[i] EXCEPT !.cap = TRUE]
        ELSE text[i]]

fix_capitalization(text) ==
    LET t1 == CapInside(CapitalizeFirst(text))
    IN  [i \in 1..Len(t1) |->
            IF t1[i].w \in ProperNames THEN [t1[i] EXCEPT !.cap = TRUE] ELSE t1[i]]

Conjunctions == {"and", "but", "or", "so", "yet"}

\* a token as the character sequence it stands for is lower case and bare
IsBareLower(t, words) == t.p = "" /\ ~t.cap /\ t.w \in words

add_punctuation(text) ==
    LET n == Len(text)
        t1 == IF n > 0 /\ ~EndsSentence(text[n].p)
              THEN [text EXCEPT ![n] = [@ EXCEPT !.p = @ \o "."]]
              ELSE text
    IN  IF n > 8
        THEN [i \in 1..n |->
                 IF i + 2 <= n /\ IsBareLower(t1[i+1], Conjunctions)
                 THEN [t1[i] EXCEPT !.p = @ \o ","]
                 ELSE t1[i]]
        ELSE t1

RECURSIVE fix_spacing(_)
\* re.sub(r'([,.!?;:])([^\s])', r'\1 \2'): a blank after a punctuation
\* mark that another mark follows directly
fix_spacing(text) ==
    IF text = EmptyText THEN text
    ELSE IF text[1].p \in {",.", ",!", ",?", ",,"}
         THEN LET second == CHOOSE c \in {".", "!", "?", ","} : text[1].p = "," \o c
              IN  <<[text[1] EXCEPT !.p = ","], [w |-> "", cap |-> FALSE, p |-> second]>>
                      \o fix_spacing(Tail(text))
    ELSE <<text[1]>> \o fix_spacing(Tail(text))

\* correct_text with fix_articles called before fix_word_order
correct_textArticlesFirst(text) ==
    IF text = EmptyText THEN text
    ELSE LET corrected == Lower(text)
             c1 == fix_double_negatives(fix_common_mistakes(corrected))
             c2 == fix_word_order(fix_articles(c1))
             c3 == add_punctuation(fix_capitalization(c2))
         IN  fix_spacing(c3)

correct_text(text) ==
    IF text = EmptyText THEN text
    ELSE LET corrected == Lower(text)
             c1 == fix_double_negatives(fix_common_mistakes(corrected))
             c2 == fix_articles(fix_word_order(c1))
             c3 == add_punctuation(fix_capitalization(c2))
         IN  fix_spacing(c3)


(***************************************************************************)
(* tone_controller.py: ToneController                                      *)
(***************************************************************************)
\* a removed word leaves its punctuation and its surrounding blanks behind
Blank(t) == [t EXCEPT !.w = "", !.cap = FALSE]

\* re.sub(r'\s+', ' ', result).strip(): what is left between blanks
Squeeze(text) == SelectSeq(text, LAMBDA t : t.w # "" \/ t.p # "")

\* normalize_map: slang word -> neutral words (an empty sequence deletes)
NormalizeMap(word) ==
    CASE word \in {"hey", "hi", "yo"} -> <<"hello">>
      [] word \in {"dude", "man"} -> << >>
      [] word = "guys" -> <<"everyone">>
      [] word = "wanna" -> <<"want", "to">>
      [] word = "gonna" -> <<"going", "to">>
      [] word = "gotta" -> <<"have", "to">>
      [] word = "kinda" -> <<"kind", "of">>
      [] word = "sorta" -> <<"sort", "of">>
      [] word \in {"yeah", "yep"} -> <<"yes">>
      [] word = "nope" -> <<"no">>
      [] word = "ok" -> <<"okay">>
      [] word = "super" -> <<"very">>
      [] word = "totally" -> <<"completely">>
      [] word = "basically" -> <<"essentially">>
      [] OTHER -> <<word>>

\* one word replaced by a phrase: the punctuation stays after the last word
Expand(t, phrase) ==
    IF phrase = << >> THEN <<Blank(t)>>
    ELSE [i \in 1..Len(phrase) |->
             [w |-> phrase[i], cap |-> FALSE,
              p |-> IF i = Len(phrase) THEN t.p ELSE ""]]

RECURSIVE MapWords(_)
MapWords(text) ==
    IF text = EmptyText THEN text
    ELSE Expand(text[1], NormalizeMap(text[1].w)) \o MapWords(Tail(text))

ToneFillers == {"like", "um", "uh"}

TonePhrases == {<<"you", "know">>, <<"i", "mean">>}

RECURSIVE DropPhrases(_)
\* re.sub(r'\byou know\b', '') and re.sub(r'\bi mean\b', ''): one blank between
DropPhrases(text) ==
    IF Len(text) <= 1 THEN text
    ELSE IF text[1].p = "" /\ <<text[1].w, text[2].w>> \in TonePhrases
         THEN <<Blank(text[2])>> \o DropPhrases(Tail(Tail(text)))
    ELSE <<text[1]>> \o DropPhrases(Tail(text))

DropFillers(text) ==
    LET t1 == [i \in 1..Len(text) |->
                  IF text[i].w \in ToneFillers THEN Blank(text[i]) ELSE text[i]]
    IN  DropPhrases(t1)

normalize(text) == CapitalizeFirst(Squeeze(DropFillers(MapWords(Lower(text)))))

\* contractions of to_formal: word -> its expansion, written as in the source
Contractions(word) ==
    CASE word = "i'm" -> <<CapTok("i"), Tok("am")>>
      [] word = "you're" -> <<Tok("you"), Tok("are")>>
      [] word = "he's" -> <<Tok("he"), Tok("is")>>
      [] word = "she's" -> <<Tok("she"), Tok("is")>>
      [] word = "it's" -> <<Tok("it"), Tok("is")>>
      [] word = "we're" -> <<Tok("we"), Tok("are")>>
      [] word = "they're" -> <<Tok("they"), Tok("are")>>
      [] word = "can't" -> <<Tok("cannot")>>
      [] word = "won't" -> <<Tok("will"), Tok("not")>>
      [] word = "don't" -> <<Tok("do"), Tok("not")>>
      [] word = "doesn't" -> <<Tok("does"), Tok("not")>>
      [] word = "didn't" -> <<Tok("did"), Tok("not")>>
      [] OTHER -> << >>

\* a replacement text put in place of token t, t's punctuation after it
Put(t, repl) == [repl EXCEPT ![Len(repl)] = [@ EXCEPT !.p = t.p]]

RECURSIVE ExpandContractions(_)
ExpandContractions(text) ==
    IF text = EmptyText THEN text
    ELSE LET repl == Contractions(text[1].w)
         IN  (IF repl = << >> THEN <<text[1]>> ELSE Put(text[1], repl))
                 \o ExpandContractions(Tail(text))

\* re.sub(r'\b<word>\b', '<to>'): the replacement is written in lower case
SubWord(text, from, to) ==
    [i \in 1..Len(text) |->
        IF text[i].w = from THEN [text[i] EXCEPT !.w = to, !.cap = FALSE]
        ELSE text[i]]

\* the words of the model's texts that begin with want, need, have or am
FormalStarters == {"want", "need", "have", "am"}

to_formal(text) ==
    LET t1 == ExpandContractions(text)
        t2 == IF /\ Len(t1) >= 2 /\ IsWord(t1[1], "i")
                 /\ t1[2].w \in FormalStarters
              THEN <<CapTok("i"), Tok("would"), Tok("like"), Tok("to")>>
                       \o Tail(t1)
              ELSE t1
        t3 == SubWord(t2, "get", "obtain")
        t4 == SubWord(t3, "show", "demonstrate")
        t5 == SubWord(t4, "help", "assist")
    IN  SubWord(t5, "ask", "inquire")

\* expansions of to_casual and its casual words: two words -> one
CasualMap(first, second) ==
    CASE <<first, second>> = <<"i", "am">> -> CapTok("i'm")
      [] <<first, second>> = <<"you", "are">> -> Tok("you're")
      [] <<first, second>> = <<"he", "is">> -> Tok("he's")
      [] <<first, second>> = <<"she", "is">> -> Tok("she's")
      [] <<first, second>> = <<"it", "is">> -> Tok("it's")
      [] <<first, second>> = <<"we", "are">> -> Tok("we're")
      [] <<first, second>> = <<"they", "are">> -> Tok("they're")
      [] <<first, second>> = <<"will", "not">> -> Tok("won't")
      [] <<first, second>> = <<"do", "not">> -> Tok("don't")
      [] <<first, second>> = <<"want", "to">> -> Tok("wanna")
      [] <<first, second>> = <<"going", "to">> -> Tok("gonna")
      [] <<first, second>> = <<"have", "to">> -> Tok("gotta")
      [] OTHER -> Tok("")

RECURSIVE Contract(_)
Contract(text) ==
    IF Len(text) <= 1 THEN text
    ELSE LET c == CasualMap(text[1].w, text[2].w)
         IN  IF text[1].p = "" /\ c.w # ""
             THEN <<[c EXCEPT !.p = text[2].p]>> \o Contract(Tail(Tail(text)))
             ELSE <<text[1]>> \o Contract(Tail(text))

\* the words of the model's texts that begin with hey, hi or yo
CasualGreetings == {"hey", "hi", "yo", "you", "you're", "your"}

\* to_casual indexes result[0]: on an empty text it raises IndexError
to_casual(text) ==
    LET t1 == Contract(SubWord(text, "cannot", "can't"))
    IN  IF t1 # EmptyText /\ t1[1].w \in CasualGreetings
        THEN [raised |-> FALSE, text |-> t1]
        ELSE IF t1 = EmptyText
        THEN [raised |-> TRUE, text |-> EmptyText]
        ELSE [raised |-> FALSE,
              text |-> <<[w |-> "hey", cap |-> TRUE, p |-> ","]>>
                           \o [t1 EXCEPT ![1] = LowerTok(@)]]

\* the value of control.get('mode', 'neutral') when the message says null
NullMode == "<None>"

\* transform(text, mode) for mode in neutral, formal, casual, an unknown
\* mode string, or None (mode.lower() raises AttributeError)
transform(text, mode) ==
    IF mode = NullMode THEN [raised |-> TRUE, text |-> EmptyText]
    ELSE LET normalized == normalize(text)
         IN  CASE mode = "formal" -> [raised |-> FALSE, text |-> to_formal(normalized)]
               [] mode = "casual" -> to_casual(normalized)
               [] OTHER -> [raised |-> FALSE, text |-> normalized]

(***************************************************************************)
(* example_browserclient/auto_formatter.py: AutoFormatter                  *)
(***************************************************************************)
RECURSIVE SentenceEnd(_, _)
\* index of the token that ends the sentence starting at token i
SentenceEnd(text, i) ==
    IF i >= Len(text) \/ EndsSentence(text[i].p) THEN i
    ELSE SentenceEnd(text, i + 1)

RECURSIVE segment_sentences(_)
\* nltk.sent_tokenize: a sentence ends at each token that ends in . ! ?
segment_sentences(text) ==
    IF text = EmptyText THEN << >>
    ELSE LET e == SentenceEnd(text, 1)
         IN  <<SubSeq(text, 1, e)>> \o segment_sentences(SubSeq(text, e + 1, Len(text)))

RECURSIVE StripEnd(_)
\* while sentence and sentence[-1] in '.!?,': sentence = sentence[:-1].strip()
StripEnd(sentence) ==
    IF sentence = EmptyText THEN sentence
    ELSE LET n == Len(sentence)
         IN  IF sentence[n].w = ""
             THEN StripEnd(SubSeq(sentence, 1, n - 1))
             ELSE [sentence EXCEPT ![n] = [@ EXCEPT !.p = ""]]

question_words == {"what", "when", "where", "who", "why", "how", "which", "whose"}

aux_verbs ==
    {"is", "are", "was", "were", "do", "does", "did", "can", "could", "will",
     "would", "should"}

detect_questions(sentence) ==
    /\ sentence # EmptyText
    /\ \/ TokIn(sentence[1], question_words)
       \/ Len(sentence) > 1 /\ TokIn(sentence[1], aux_verbs)

\* the words of the model's texts that contain wow, amazing, great, terrible or help
ExclaimWords == {"wow", "amazing", "great", "terrible", "help"}

Punctuate(sentence) ==
    LET s == StripEnd(sentence)
        mark == IF detect_questions(s) THEN "?"
                ELSE IF \E i \in 1..Len(s) : s[i].w \in ExclaimWords THEN "!"
                ELSE "."
    IN  IF s = EmptyText THEN s
        ELSE [s EXCEPT ![Len(s)] = [@ EXCEPT !.p = mark]]

capitalize_sentence(sentence) == CapInside(CapitalizeFirst(sentence))

RECURSIVE Join(_)
\* ' '.join(sentences)
Join(sentences) ==
    IF sentences = << >> THEN EmptyText
    ELSE sentences[1] \o Join(Tail(sentences))

\* format_text for texts of at most two sentences (longer ones are split
\* into paragraphs, which a token sequence does not show)
format_text(text) ==
    IF text = EmptyText THEN text
    ELSE LET sentences == segment_sentences(text)
             punctuated == SelectSeq([i \in 1..Len(sentences) |-> Punctuate(sentences[i])],
                                     LAMBDA s : s # EmptyText)
         IN  Join([i \in 1..Len(punctuated) |-> capitalize_sentence(punctuated[i])])


(***************************************************************************)
(* The server: state                                                       *)
(***************************************************************************)
VARIABLES
    recording_active,          \* threading.Event set by start_recording
    current_tone_mode,         \* global, written by set_tone
    current_transcription_id,  \* global, written by the recorder thread
    corrections,               \* table corrections, in id order
    learned_rules,             \* table learned_rules, in id order
    transcriptions,            \* table transcriptions, in id order
    memory,                    \* FeedbackMemory.memory (feedback_memory.json)
    pc,                        \* where the recorder thread is in run_recorder
    run,                       \* the recorder thread's local variables
    worker,                    \* the ThreadPoolExecutor's grammar task
    clock,                     \* ticks since start_time of the current run
    events,                    \* the messages handed to send_to_client
    utterances,                \* how many non-empty utterances recorder.text() returned
    commands,                  \* how many control messages the client has yet to send
    stopped,                   \* stop_recording handled and no start_recording since
    feedback,                  \* table feedback, in id order
    memory_file,               \* what feedback_memory.json holds on disk
    connected,                 \* the "async for message in websocket" loop is running
    ignored,                   \* how many messages echo has passed over
    started,                   \* the start_recording commands handled so far
    fn,                        \* the text function under call, "none" in the server runs
    arg,                       \* the text the function was first called with
    failure,                   \* the sub-rule of correct_text that raises, or "none"
    returned,                  \* what the successive calls returned
    detector,                  \* the ParagraphDetector instance's attributes
    wallclock,                 \* time.time(), in ticks of 0.5 s
    answer,                    \* what the last detector query returned
    calls,                     \* the calls made on the detector that change it, in order
    times,                     \* time.time() at each of these calls
    tracker,                   \* the SilenceTracker instance's attributes and its lock
    threads                    \* where each thread is in the tracker's methods

vars ==
    <<recording_active, current_tone_mode, current_transcription_id, corrections,
      learned_rules, transcriptions, memory, pc, run, worker, clock, events,
      utterances, commands, stopped, feedback, memory_file, connected, ignored,
      started,
      fn, arg, failure, returned, detector, wallclock, answer, calls, times,
      tracker, threads>>

\* the variables of the feedback stores
storeVars == <<corrections, learned_rules, memory, feedback, memory_file>>

\* the variables of the client connection
clientVars == <<connected, ignored, started>>

\* the variables of a call of one of the text functions
callVars == <<fn, arg, failure, returned>>

\* the variables of the paragraph detector
detectorVars == <<detector, wallclock, answer, calls, times, tracker, threads>>

(***************************************************************************)
(* Bounds and inputs                                                       *)
(***************************************************************************)
\* utterances the recorder returns in one behaviour
MaxUtterances == 2

\* control messages the client sends in one behaviour
MaxCommands == 2

Text(ws) == [i \in 1..Len(ws) |-> Tok(ws[i])]

UtteranceGo == Text(<<"i", "i", "gotta", "go", "um">>)

UtteranceUm == Text(<<"um">>)

\* what recorder.text() can return; the empty text is falsy
Utterances == {UtteranceGo, UtteranceUm, EmptyText}

ToneModes == {"neutral", "casual", NullMode}

CorrectionMust ==
    <<CapTok("i"), Tok("must"), [w |-> "go", cap |-> FALSE, p |-> "."]>>

CorrectionLeave ==
    <<CapTok("i"), Tok("should"), [w |-> "leave", cap |-> FALSE, p |-> "."]>>

\* the feedback commands a client sends: the original as the client shows
\* it (first letter upper case), the system output, the user's correction
FeedbackCommand(correction, tone_mode) ==
    [original |-> CapitalizeFirst(UtteranceGo), system_output |-> EmptyText,
     user_correction |-> correction, tone_mode |-> tone_mode]

FeedbackCommands ==
    {FeedbackCommand(CorrectionMust, "neutral"),
     FeedbackCommand(CorrectionLeave, "neutral"),
     FeedbackCommand(CorrectionMust, "casual")}

\* time.time() - start_time after the disfluency step, in ticks
ElapsedChoices == {0, 26, 27}

\* how long grammar.correct_text runs on the worker, in ticks (40 is 2 s)
GrammarDurations == {1, 40}

(***************************************************************************)
(* run_recorder's time constants, in ticks of 0.05 s                       *)
(***************************************************************************)
MAX_LATENCY == 30

ReserveFinal == 1

MinRemaining == 2

GrammarCap == 6

GrammarMargin == 2

ConfidenceThreshold == 3

(***************************************************************************)
(* database.py: TranscriptionDatabase                                      *)
(***************************************************************************)
\* an optional text: None, or a text
NoText == [some |-> FALSE, text |-> EmptyText]

Some(text) == [some |-> TRUE, text |-> text]

\* Python truth of an optional text: None and '' are false
Truthy(opt) == opt.some /\ opt.text # EmptyText

\* MatchingRows without LOWER: WHERE original_text = ? AND tone_mode = ?
MatchingRowsExact(table, original, tone_mode) ==
    {i \in 1..Len(table) :
        /\ table[i].original_text = original
        /\ tone_mode # NullMode
        /\ table[i].tone_mode = tone_mode}

\* rows WHERE LOWER(original_text) = LOWER(?) AND tone_mode = ?
MatchingRows(table, original, tone_mode) ==
    {i \in 1..Len(table) :
        /\ Lower(table[i].original_text) = Lower(original)
        /\ tone_mode # NullMode
        /\ table[i].tone_mode = tone_mode}

\* SELECT COUNT(*) ... AND corrected_output = ?
CorrectionCount(table, original, corrected_output, tone_mode) ==
    Cardinality({i \in MatchingRows(table, original, tone_mode) :
                    table[i].corrected_output = corrected_output})

\* check_exact_match: GROUP BY corrected_output ORDER BY count DESC LIMIT 1.
\* The set of results the query can give: SQL leaves the order of groups
\* of equal count open.  Empty when no row matches (the result is None).
check_exact_match(table, original, tone_mode) ==
    LET rows == MatchingRows(table, original, tone_mode)
        outputs == {table[i].corrected_output : i \in rows}
        \* COUNT(*) as count ... GROUP BY corrected_output
        count == [o \in outputs |->
                     Cardinality({i \in rows : table[i].corrected_output = o})]
    IN  {o \in outputs : \A o2 \in outputs : count[o2] <= count[o]}

\* one whitespace-separated word of text.lower().split(), as a string
WordString(t) == t.w \o t.p

\* WordPairs, were texts of different word counts not compared at all
WordPairsSameLength(original, corrected) ==
    LET n == IF Len(original) = Len(corrected) THEN Len(original) ELSE 0
        differs == {i \in 1..n : WordString(original[i]) # WordString(corrected[i])}
        F[i \in 0..n] ==
            IF i = 0 THEN << >>
            ELSE IF i \in differs
                 THEN Append(F[i-1], <<WordString(original[i]), WordString(corrected[i])>>)
            ELSE F[i-1]
    IN  F[n]

\* the (from, to) pairs _extract_and_store_rules walks through, in order
WordPairs(original, corrected) ==
    LET n == Min(Len(original), Len(corrected))
        differs == {i \in 1..n : WordString(original[i]) # WordString(corrected[i])}
        F[i \in 0..n] ==
            IF i = 0 THEN << >>
            ELSE IF i \in differs
                 THEN Append(F[i-1], <<WordString(original[i]), WordString(corrected[i])>>)
            ELSE F[i-1]
    IN  F[n]

RuleKey(from, to, tone_mode) == from \o "->" \o to \o ":" \o tone_mode

\* UpsertRule on a table that holds two rows at most: the INSERT drops the
\* oldest row
UpsertRuleEvicts(rules, from, to, tone_mode) ==
    LET key == RuleKey(from, to, tone_mode)
    IN  IF \E i \in 1..Len(rules) : rules[i].rule_key = key
        THEN [i \in 1..Len(rules) |->
                 IF rules[i].rule_key = key
                 THEN [rules[i] EXCEPT !.usage_count = @ + 1]
                 ELSE rules[i]]
        ELSE Append(IF Len(rules) >= 2 THEN Tail(rules) ELSE rules,
                    [rule_key |-> key, from_word |-> from, to_word |-> to,
                     tone_mode |-> tone_mode, usage_count |-> 1])

\* one pass of the loop body of _extract_and_store_rules
UpsertRule(rules, from, to, tone_mode) ==
    LET key == RuleKey(from, to, tone_mode)
    IN  IF \E i \in 1..Len(rules) : rules[i].rule_key = key
        THEN [i \in 1..Len(rules) |->
                 IF rules[i].rule_key = key
                 THEN [rules[i] EXCEPT !.usage_count = @ + 1]
                 ELSE rules[i]]
        ELSE Append(rules, [rule_key |-> key, from_word |-> from, to_word |-> to,
                            tone_mode |-> tone_mode, usage_count |-> 1])

RECURSIVE UpsertAll(_, _, _)
UpsertAll(rules, pairs, tone_mode) ==
    IF pairs = << >> THEN rules
    ELSE UpsertAll(UpsertRule(rules, pairs[1][1], pairs[1][2], tone_mode),
                   Tail(pairs), tone_mode)

_extract_and_store_rules(rules, original, corrected, tone_mode) ==
    UpsertAll(rules, WordPairs(original, corrected), tone_mode)

\* the row store_correction inserts
CorrectionRow(original, wrong_output, corrected_output, correction_type, tone_mode) ==
    [original_text |-> original, wrong_output |-> wrong_output,
     corrected_output |-> corrected_output, correction_type |-> correction_type,
     tone_mode |-> tone_mode]

\* the row store_transcription inserts
TranscriptionRow(data) ==
    [original_audio_text |-> data.original, cleaned_text |-> data.cleaned,
     filtered_text |-> data.filtered, grammar_corrected |-> data.grammar_corrected,
     tone_transformed |-> data.tone_transformed, final_output |-> data.final_output,
     tone_mode |-> data.tone_mode, utterance |-> data.utterance]

\* tone_mode TEXT NOT NULL: the INSERT raises sqlite3.IntegrityError on None
InsertFails(tone_mode) == tone_mode = NullMode

\* the row store_feedback inserts
FeedbackRow(feedback_type, original, output, tone_mode, transcription_id) ==
    [feedback_type |-> feedback_type, original_text |-> original,
     output_text |-> output, tone_mode |-> tone_mode,
     transcription_id |-> transcription_id]

store_feedback(table, feedback_type, original, output, tone_mode, transcription_id) ==
    Append(table, FeedbackRow(feedback_type, original, output, tone_mode,
                              transcription_id))

RECURSIVE GCD(_, _)
GCD(a, b) == IF b = 0 THEN a ELSE GCD(b, a % b)

\* the float a / b, kept as a fraction in lowest terms
Ratio(a, b) == [num |-> a \div GCD(a, b), den |-> b \div GCD(a, b)]

Zero == [num |-> 0, den |-> 1]

\* SELECT COUNT(*) FROM feedback WHERE feedback_type = ?
FeedbackCount(table, feedback_type) ==
    Cardinality({i \in 1..Len(table) : table[i].feedback_type = feedback_type})

\* f"{approved / total * 100:.1f}" in tenths of a percent: the nearest tenth.
\* A percentage lies half-way between two tenths only when total is a
\* multiple of 16.
OneDecimal(approved, total) == (2000 * approved + total) \div (2 * total)

\* get_accuracy_stats: accuracy is approved / total * 100, and 0 on no feedback
get_accuracy_stats(table) ==
    LET approved == FeedbackCount(table, "approve")
        rejected == FeedbackCount(table, "reject")
        total == approved + rejected
    IN  [approved |-> approved, rejected |-> rejected, total |-> total,
         accuracy |-> IF total > 0 THEN OneDecimal(approved, total) ELSE 0]

\* ActiveRows without the tone mode: WHERE usage_count >= ?
ActiveRowsAnyTone(rules, tone_mode, min_usage) ==
    {i \in 1..Len(rules) :
        /\ tone_mode # NullMode
        /\ rules[i].usage_count >= min_usage}

\* the rows get_learned_rules selects: WHERE tone_mode = ? AND usage_count >= ?
ActiveRows(rules, tone_mode, min_usage) ==
    {i \in 1..Len(rules) :
        /\ tone_mode # NullMode
        /\ rules[i].tone_mode = tone_mode
        /\ rules[i].usage_count >= min_usage}

\* get_learned_rules with "usage_count > ?" in place of "usage_count >= ?"
get_learned_rulesAbove(rules, tone_mode, min_usage) ==
    LET rows == {i \in ActiveRows(rules, tone_mode, min_usage) :
                    rules[i].usage_count > min_usage}
        n == Cardinality(rows)
    IN  {order \in [1..n -> rows] :
            /\ \A i, j \in 1..n : i # j => order[i] # order[j]
            /\ \A i, j \in 1..n :
                   i < j => rules[order[i]].usage_count >= rules[order[j]].usage_count}

\* get_learned_rules: ORDER BY usage_count DESC.  The set of row orders the
\* query can give: SQL leaves the order of rows of equal usage_count open.
get_learned_rules(rules, tone_mode, min_usage) ==
    LET rows == ActiveRows(rules, tone_mode, min_usage)
        n == Cardinality(rows)
    IN  {order \in [1..n -> rows] :
            /\ \A i, j \in 1..n : i # j => order[i] # order[j]
            /\ \A i, j \in 1..n :
                   i < j => rules[order[i]].usage_count >= rules[order[j]].usage_count}

\* the characters of a word of the texts the stores are asked about
Letters(word) ==
    CASE word = "" -> << >>
      [] word = "i" -> <<"i">>
      [] word = "um" -> <<"u", "m">>
      [] word = "go" -> <<"g", "o">>
      [] word = "go." -> <<"g", "o", ".">>
      [] word = "eat" -> <<"e", "a", "t">>
      [] word = "must" -> <<"m", "u", "s", "t">>
      [] word = "gotta" -> <<"g", "o", "t", "t", "a">>
      [] word = "leave" -> <<"l", "e", "a", "v", "e">>
      [] word = "leave." -> <<"l", "e", "a", "v", "e", ".">>
      [] word = "sleep" -> <<"s", "l", "e", "e", "p">>
      [] word = "should" -> <<"s", "h", "o", "u", "l", "d">>

\* str.upper() of one letter
UpperLetter(c) ==
    CASE c = "i" -> "I" [] c = "g" -> "G" [] c = "l" -> "L" [] c = "m" -> "M"
      [] c = "s" -> "S" [] c = "e" -> "E" [] c = "u" -> "U"

\* the characters of one token as the client typed it
TokChars(t) ==
    LET word == Letters(t.w)
    IN  (IF t.cap /\ word # << >>
         THEN <<UpperLetter(word[1])>> \o Tail(word)
         ELSE word) \o Letters(t.p)

RECURSIVE Chars(_)
\* the string ' '.join(tokens), one character at a time
Chars(text) ==
    IF text = EmptyText THEN << >>
    ELSE IF Len(text) = 1 THEN TokChars(text[1])
    ELSE TokChars(text[1]) \o <<" ">> \o Chars(Tail(text))

RECURSIVE Replace(_, _, _)
\* str.replace(from, to): every occurrence, left to right, none overlapping
Replace(s, from, to) ==
    IF Len(s) < Len(from) THEN s
    ELSE IF SubSeq(s, 1, Len(from)) = from
         THEN to \o Replace(SubSeq(s, Len(from) + 1, Len(s)), from, to)
    ELSE <<s[1]>> \o Replace(Tail(s), from, to)

RECURSIVE ReplaceAll(_, _, _)
\* the loop "for rule in rules: result = result.replace(...)"
ReplaceAll(result, rules, order) ==
    IF order = << >> THEN result
    ELSE ReplaceAll(Replace(result, Letters(rules[order[1]].from_word),
                            Letters(rules[order[1]].to_word)),
                    rules, Tail(order))

RECURSIVE Reverse(_)
Reverse(seq) == IF seq = << >> THEN << >> ELSE Append(Reverse(Tail(seq)), seq[1])

\* apply_learned_rules, were the rows taken in ascending order of usage_count
apply_learned_rulesAscending(rules, text, tone_mode) ==
    {LET result == ReplaceAll(Chars(text), rules, Reverse(order))
     IN  IF result # Chars(text) THEN Some(result) ELSE NoText :
        order \in get_learned_rules(rules, tone_mode, 2)}

\* apply_learned_rules: "result if result != text else None", for each row
\* order get_learned_rules can give
apply_learned_rules(rules, text, tone_mode) ==
    {LET result == ReplaceAll(Chars(text), rules, order)
     IN  IF result # Chars(text) THEN Some(result) ELSE NoText :
        order \in get_learned_rules(rules, tone_mode, 2)}

(***************************************************************************)
(* feedback_memory.py: FeedbackMemory                                      *)
(***************************************************************************)
\* the loop body of FeedbackMemory._extract_rules: memory['rules'][key]['count'] += 1.
\* from_word, to_word and tone_mode are what check_memory splits the key
\* into at ':' and at the arrow, for words and tone modes that hold neither.
MemoryUpsert(rules, from, to, tone_mode) ==
    LET key == RuleKey(from, to, tone_mode)
    IN  IF \E i \in 1..Len(rules) : rules[i].rule_key = key
        THEN [i \in 1..Len(rules) |->
                 IF rules[i].rule_key = key
                 THEN [rules[i] EXCEPT !.count = @ + 1]
                 ELSE rules[i]]
        ELSE Append(rules, [rule_key |-> key, count |-> 1, from_word |-> from,
                            to_word |-> to, tone_mode |-> tone_mode])

RECURSIVE _extract_rules(_, _, _)
_extract_rules(rules, pairs, tone_mode) ==
    IF pairs = << >> THEN rules
    ELSE _extract_rules(MemoryUpsert(rules, pairs[1][1], pairs[1][2], tone_mode),
                        Tail(pairs), tone_mode)

add_correction(mem, original, system_output, user_correction, tone_mode) ==
    [mem EXCEPT
        !.corrections = Append(@, [original |-> original,
                                   system_output |-> system_output,
                                   user_correction |-> user_correction,
                                   tone_mode |-> tone_mode]),
        !.rules = _extract_rules(@, WordPairs(Lower(original), Lower(user_correction)),
                                 tone_mode)]

\* check_memory: the user_correction of the first correction with this
\* original (lower case) and tone mode; failing that, the rules counted
\* twice or more under this tone mode, applied in the order of the dict
check_memory(mem, text, tone_mode) ==
    LET exact == {i \in 1..Len(mem.corrections) :
                     /\ Lower(mem.corrections[i].original) = Lower(text)
                     /\ mem.corrections[i].tone_mode = tone_mode}
        first == CHOOSE i \in exact : \A j \in exact : i <= j
        n == Len(mem.rules)
        Order[i \in 0..n] ==
            IF i = 0 THEN << >>
            ELSE IF mem.rules[i].count >= 2 /\ mem.rules[i].tone_mode = tone_mode
                 THEN Append(Order[i-1], i)
            ELSE Order[i-1]
        result == ReplaceAll(Chars(text), mem.rules, Order[n])
    IN  IF exact # {} THEN Some(Chars(mem.corrections[first].user_correction))
        ELSE IF result # Chars(text) THEN Some(result)
        ELSE NoText

\* memory['accuracy_score'] after _update_accuracy_score
_update_accuracy_score(mem) ==
    LET total_feedback == Len(mem.approved) + Len(mem.rejected)
    IN  IF total_feedback > 0
        THEN [mem EXCEPT !.accuracy_score = Ratio(Len(mem.approved), total_feedback)]
        ELSE mem

approve_output(mem, original, output, tone_mode) ==
    _update_accuracy_score(
        [mem EXCEPT !.approved = Append(@, [original |-> original, output |-> output,
                                            tone_mode |-> tone_mode])])

\* reject_output without the call of _update_accuracy_score
reject_outputStale(mem, original, output, tone_mode) ==
    [mem EXCEPT !.rejected = Append(@, [original |-> original, output |-> output,
                                        tone_mode |-> tone_mode])]

reject_output(mem, original, output, tone_mode) ==
    _update_accuracy_score(
        [mem EXCEPT !.rejected = Append(@, [original |-> original, output |-> output,
                                            tone_mode |-> tone_mode])])

\* the memory load_memory returns when there is no file, or json.load raises
EmptyMemory ==
    [corrections |-> << >>, rules |-> << >>, approved |-> << >>,
     rejected |-> << >>, accuracy_score |-> Zero]

\* feedback_memory.json: absent, holding a memory in full, or cut short
NoFile == [state |-> "absent", data |-> EmptyMemory]

\* save_memory: open(memory_file, 'w') and json.dump(memory)
save_memory(mem) == [state |-> "valid", data |-> mem]

\* the file when the process dies between open(..., 'w') and the end of json.dump
CutShort == [state |-> "partial", data |-> EmptyMemory]

\* load_memory: the bare except turns a file json.load rejects into an empty memory
load_memory(file) == IF file.state = "valid" THEN file.data ELSE EmptyMemory


(***************************************************************************)
(* server.py: the feedback command of echo, on the stores alone            *)
(***************************************************************************)
\* db.store_correction(...) then feedback_memory.add_correction(...)
StoreFeedback(st, cmd) ==
    LET mem == add_correction(st.memory, cmd.original, cmd.system_output,
                              cmd.user_correction, cmd.tone_mode)
    IN  IF InsertFails(cmd.tone_mode) THEN st
        ELSE [st EXCEPT
                 !.corrections =
                     Append(@, CorrectionRow(cmd.original, cmd.system_output,
                                             cmd.user_correction, "manual",
                                             cmd.tone_mode)),
                 !.learned_rules =
                     _extract_and_store_rules(@, Lower(cmd.original),
                                              Lower(cmd.user_correction),
                                              cmd.tone_mode),
                 !.memory = mem,
                 !.memory_file = save_memory(mem)]

EmptyStores ==
    [corrections |-> << >>, learned_rules |-> << >>, memory |-> EmptyMemory,
     feedback |-> << >>, memory_file |-> NoFile]

\* the stores as the variables hold them
Stores ==
    [corrections |-> corrections, learned_rules |-> learned_rules,
     memory |-> memory, feedback |-> feedback, memory_file |-> memory_file]

\* the variables take the stores st
StoresBecome(st) ==
    /\ corrections' = st.corrections
    /\ learned_rules' = st.learned_rules
    /\ memory' = st.memory
    /\ feedback' = st.feedback
    /\ memory_file' = st.memory_file

RECURSIVE StoresAfter(_)
\* the stores a past session left on disk after the feedback commands cmds
StoresAfter(cmds) ==
    IF cmds = << >> THEN EmptyStores
    ELSE StoreFeedback(StoresAfter(SubSeq(cmds, 1, Len(cmds) - 1)), cmds[Len(cmds)])

PastFeedback == FeedbackCommand(CorrectionMust, "neutral")

\* what transcription_data.db and feedback_memory.json hold at start-up:
\* nothing, or the same correction given twice in an earlier session
InitialStores == {StoresAfter(<< >>), StoresAfter(<<PastFeedback, PastFeedback>>)}

(***************************************************************************)
(* server.py: run_recorder, the recorder thread                            *)
(***************************************************************************)
NotRead == "-"

\* the thread's locals as an utterance arrives
NewRun(full_sentence) ==
    [full_sentence |-> full_sentence, exact_match |-> NoText,
     learned_output |-> NoText, cleaned_sentence |-> EmptyText,
     filtered_sentence |-> EmptyText, corrected_sentence |-> EmptyText,
     toned_sentence |-> EmptyText, final_sentence |-> EmptyText,
     remaining_time |-> 0, grammar_timeout |-> 0,
     steps |-> << >>,          \* the pipeline steps called so far
     timed_out |-> FALSE,      \* FuturesTimeoutError was caught
     lookup_mode |-> NotRead,  \* current_tone_mode as check_exact_match got it
     count_mode |-> NotRead,   \* ... as the COUNT query got it
     tone_mode |-> NotRead,    \* ... as tone_controller.transform got it
     raised |-> NotRead]       \* the call whose exception reached "except Exception"

IdleWorker == [state |-> "idle", done_at |-> 0]

\* send_to_client(json.dumps(...)) scheduled on main_loop, which main() sets
\* before it starts the thread
StageEvent(n, text) ==
    [utterance |-> utterances, type |-> "stage", stage |-> n, text |-> text,
     learned |-> FALSE, at |-> clock]

FullSentenceEvent(text, at) ==
    [utterance |-> utterances, type |-> "fullSentence", stage |-> 0, text |-> text,
     learned |-> FALSE, at |-> at]

CompleteEvent(learned, at) ==
    [utterance |-> utterances, type |-> "recording_complete", stage |-> 0,
     text |-> EmptyText, learned |-> learned, at |-> at]

\* recording_active.wait()
Wait ==
    /\ pc = "wait"
    /\ recording_active
    /\ pc' = "text"
    /\ UNCHANGED <<callVars, detectorVars, recording_active, current_tone_mode, current_transcription_id,
                   storeVars, clientVars, transcriptions, run, worker, clock, events,
                   utterances, commands, stopped>>

\* full_sentence = recorder.text(); start_time = time.time(); if full_sentence:
Transcribe(full_sentence) ==
    /\ pc = "text"
    /\ IF full_sentence = EmptyText
       THEN /\ pc' = "wait"
            /\ UNCHANGED <<callVars, detectorVars, run, clock, utterances>>
       ELSE /\ utterances < MaxUtterances
            /\ utterances' = utterances + 1
            /\ run' = NewRun(full_sentence)
            /\ clock' = 0
            /\ pc' = "lookup"
    /\ UNCHANGED <<callVars, detectorVars, recording_active, current_tone_mode, current_transcription_id,
                   storeVars, clientVars, transcriptions, worker, events, commands, stopped>>

\* exact_match = db.check_exact_match(full_sentence, current_tone_mode)
Lookup ==
    /\ pc = "lookup"
    /\ LET found == check_exact_match(corrections, run.full_sentence, current_tone_mode)
       IN  \E m \in IF found = {} THEN {NoText} ELSE {Some(o) : o \in found} :
               /\ run' = [run EXCEPT !.exact_match = m,
                                      !.lookup_mode = current_tone_mode]
               /\ pc' = IF Truthy(m) THEN "count" ELSE "branch"
    /\ UNCHANGED <<callVars, detectorVars, recording_active, current_tone_mode, current_transcription_id,
                   storeVars, clientVars, transcriptions, worker, clock, events, utterances,
                   commands, stopped>>

\* LearnedOutput with the gate one correction too low
LearnedOutputAtTwo(table, full_sentence, exact_match, tone_mode) ==
    IF CorrectionCount(table, full_sentence, exact_match.text, tone_mode)
           >= ConfidenceThreshold - 1
    THEN exact_match
    ELSE NoText

\* the COUNT(*) query and "if correction_count >= 3: learned_output = exact_match"
LearnedOutput(table, full_sentence, exact_match, tone_mode) ==
    IF CorrectionCount(table, full_sentence, exact_match.text, tone_mode)
           >= ConfidenceThreshold
    THEN exact_match
    ELSE NoText

Count ==
    /\ pc = "count"
    /\ run' = [run EXCEPT
                  !.learned_output =
                      LearnedOutput(corrections, run.full_sentence, run.exact_match,
                                    current_tone_mode),
                  !.count_mode = current_tone_mode]
    /\ pc' = "branch"
    /\ UNCHANGED <<callVars, detectorVars, recording_active, current_tone_mode, current_transcription_id,
                   storeVars, clientVars, transcriptions, worker, clock, events, utterances,
                   commands, stopped>>

\* EmitLearned without its "continue": the thread goes on into the pipeline
EmitLearnedFallsThrough ==
    /\ pc = "branch"
    /\ Truthy(run.learned_output)
    /\ run' = [run EXCEPT !.final_sentence = run.learned_output.text]
    /\ events' = events \o <<StageEvent(1, run.full_sentence),
                             FullSentenceEvent(run.learned_output.text, clock),
                             CompleteEvent(TRUE, clock)>>
    /\ recording_active' = FALSE
    /\ pc' = "dedup"
    /\ UNCHANGED <<callVars, detectorVars, current_tone_mode, current_transcription_id, storeVars, clientVars,
                   transcriptions, worker, clock, utterances, commands, stopped>>

\* "if learned_output:" ... recording_active.clear(); continue
EmitLearned ==
    /\ pc = "branch"
    /\ Truthy(run.learned_output)
    /\ run' = [run EXCEPT !.final_sentence = run.learned_output.text]
    /\ events' = events \o <<StageEvent(1, run.full_sentence),
                             FullSentenceEvent(run.learned_output.text, clock),
                             CompleteEvent(TRUE, clock)>>
    /\ recording_active' = FALSE
    /\ pc' = "wait"
    /\ UNCHANGED <<callVars, detectorVars, current_tone_mode, current_transcription_id, storeVars, clientVars,
                   transcriptions, worker, clock, utterances, commands, stopped>>

\* stage 1: the original transcription
Stage1 ==
    /\ pc = "branch"
    /\ ~Truthy(run.learned_output)
    /\ events' = Append(events, StageEvent(1, run.full_sentence))
    /\ pc' = "dedup"
    /\ UNCHANGED <<callVars, detectorVars, recording_active, current_tone_mode, current_transcription_id,
                   storeVars, clientVars, transcriptions, run, worker, clock, utterances,
                   commands, stopped>>

\* cleaned_sentence = dedupe_repetition(full_sentence); stage 2
Dedup ==
    /\ pc = "dedup"
    /\ LET cleaned == dedupe_repetition(run.full_sentence)
       IN  /\ run' = [run EXCEPT !.cleaned_sentence = cleaned,
                                  !.steps = Append(@, "dedup")]
           /\ events' = Append(events, StageEvent(2, cleaned))
    /\ pc' = "disfluency"
    /\ UNCHANGED <<callVars, detectorVars, recording_active, current_tone_mode, current_transcription_id,
                   storeVars, clientVars, transcriptions, worker, clock, utterances, commands, stopped>>

\* filtered_sentence = disfluency_filter.clean_text(cleaned_sentence); stage 3
Disfluency ==
    /\ pc = "disfluency"
    /\ LET filtered == clean_text(run.cleaned_sentence)
       IN  /\ run' = [run EXCEPT !.filtered_sentence = filtered,
                                  !.steps = Append(@, "disfluency")]
           /\ events' = Append(events, StageEvent(3, filtered))
    /\ pc' = "budget"
    /\ UNCHANGED <<callVars, detectorVars, recording_active, current_tone_mode, current_transcription_id,
                   storeVars, clientVars, transcriptions, worker, clock, utterances, commands, stopped>>

\* remaining_time = MAX_LATENCY - elapsed - 0.05
RemainingTime(elapsed) == MAX_LATENCY - elapsed - ReserveFinal

\* elapsed = time.time() - start_time; remaining_time = ...
TimeBudget(elapsed) ==
    /\ pc = "budget"
    /\ clock' = elapsed
    /\ run' = [run EXCEPT !.remaining_time = RemainingTime(elapsed)]
    /\ pc' = "check"
    /\ UNCHANGED <<callVars, detectorVars, recording_active, current_tone_mode, current_transcription_id,
                   storeVars, clientVars, transcriptions, worker, events, utterances, commands, stopped>>

\* BudgetExceeded with < for <=
BudgetExceededStrict(remaining_time) == remaining_time < MinRemaining

\* if remaining_time <= 0.1:
BudgetExceeded(remaining_time) == remaining_time <= MinRemaining

\* the branch that skips grammar, tone and formatting
SkipGrammar ==
    /\ pc = "check"
    /\ BudgetExceeded(run.remaining_time)
    /\ run' = [run EXCEPT !.final_sentence = run.filtered_sentence,
                          !.corrected_sentence = run.filtered_sentence,
                          !.toned_sentence = run.filtered_sentence]
    /\ pc' = "emit"
    /\ UNCHANGED <<callVars, detectorVars, recording_active, current_tone_mode, current_transcription_id,
                   storeVars, clientVars, transcriptions, worker, clock, events, utterances,
                   commands, stopped>>

\* GrammarTimeoutOf without the 0.1 s margin
GrammarTimeoutOfNoMargin(remaining_time) == Min(GrammarCap, remaining_time)

\* grammar_timeout = min(0.3, remaining_time - 0.1)
GrammarTimeoutOf(remaining_time) == Min(GrammarCap, remaining_time - GrammarMargin)

\* future = executor.submit(grammar.correct_text, filtered_sentence); the
\* task takes `duration` ticks on the worker thread
SubmitGrammar(duration) ==
    /\ pc = "check"
    /\ ~BudgetExceeded(run.remaining_time)
    /\ run' = [run EXCEPT !.grammar_timeout = GrammarTimeoutOf(run.remaining_time),
                          !.steps = Append(@, "grammar")]
    /\ worker' = [state |-> "running", done_at |-> clock + duration]
    /\ pc' = "grammar"
    /\ UNCHANGED <<callVars, detectorVars, recording_active, current_tone_mode, current_transcription_id,
                   storeVars, clientVars, transcriptions, clock, events, utterances, commands, stopped>>

\* corrected_sentence = future.result(timeout=grammar_timeout) returns; the
\* with block then ends at once, the worker being idle
GrammarResult ==
    /\ pc = "grammar"
    /\ worker.done_at <= clock + run.grammar_timeout
    /\ run' = [run EXCEPT !.corrected_sentence = correct_text(run.filtered_sentence)]
    /\ clock' = worker.done_at
    /\ worker' = IdleWorker
    /\ pc' = "tone"
    /\ UNCHANGED <<callVars, detectorVars, recording_active, current_tone_mode, current_transcription_id,
                   storeVars, clientVars, transcriptions, events, utterances, commands, stopped>>

\* GrammarTimeout taking what the worker returns after the timeout
GrammarTimeoutLate ==
    /\ pc = "grammar"
    /\ worker.done_at >= clock + run.grammar_timeout
    /\ run' = [run EXCEPT !.corrected_sentence = correct_text(run.filtered_sentence),
                          !.timed_out = TRUE]
    /\ clock' = clock + run.grammar_timeout
    /\ pc' = "exit"
    /\ UNCHANGED <<callVars, detectorVars, recording_active, current_tone_mode, current_transcription_id,
                   storeVars, clientVars, transcriptions, worker, events, utterances, commands, stopped>>

\* except FuturesTimeoutError: corrected_sentence = filtered_sentence
GrammarTimeout ==
    /\ pc = "grammar"
    /\ worker.done_at >= clock + run.grammar_timeout
    /\ run' = [run EXCEPT !.corrected_sentence = run.filtered_sentence,
                          !.timed_out = TRUE]
    /\ clock' = clock + run.grammar_timeout
    /\ pc' = "exit"
    /\ UNCHANGED <<callVars, detectorVars, recording_active, current_tone_mode, current_transcription_id,
                   storeVars, clientVars, transcriptions, worker, events, utterances, commands, stopped>>

\* when the with block is left after a timeout: ThreadPoolExecutor.__exit__
\* calls shutdown(wait=True), which joins the worker thread
ExecutorExitTime(now, w) == Max(now, w.done_at)

ExecutorExit ==
    /\ pc = "exit"
    /\ clock' = ExecutorExitTime(clock, worker)
    /\ worker' = IdleWorker
    /\ pc' = "tone"
    /\ UNCHANGED <<callVars, detectorVars, recording_active, current_tone_mode, current_transcription_id,
                   storeVars, clientVars, transcriptions, run, events, utterances, commands, stopped>>


\* toned_sentence = tone_controller.transform(corrected_sentence, current_tone_mode)
Tone ==
    /\ pc = "tone"
    /\ LET r == transform(run.corrected_sentence, current_tone_mode)
       IN  /\ ~r.raised
           /\ run' = [run EXCEPT !.toned_sentence = r.text,
                                  !.tone_mode = current_tone_mode,
                                  !.steps = Append(@, "tone")]
    /\ pc' = "format"
    /\ UNCHANGED <<callVars, detectorVars, recording_active, current_tone_mode, current_transcription_id,
                   storeVars, clientVars, transcriptions, worker, clock, events, utterances,
                   commands, stopped>>

\* transform raises: "except Exception as e: ... continue" takes the thread
\* back to the top of the loop
ToneRaises ==
    /\ pc = "tone"
    /\ transform(run.corrected_sentence, current_tone_mode).raised
    /\ run' = [run EXCEPT !.tone_mode = current_tone_mode,
                          !.steps = Append(@, "tone"),
                          !.raised = "tone"]
    /\ pc' = "wait"
    /\ UNCHANGED <<callVars, detectorVars, recording_active, current_tone_mode, current_transcription_id,
                   storeVars, clientVars, transcriptions, worker, clock, events, utterances,
                   commands, stopped>>

\* final_sentence = auto_formatter.format_text(toned_sentence, use_paragraphs=True)
Format ==
    /\ pc = "format"
    /\ run' = [run EXCEPT !.final_sentence = format_text(run.toned_sentence),
                          !.steps = Append(@, "format")]
    /\ pc' = "emit"
    /\ UNCHANGED <<callVars, detectorVars, recording_active, current_tone_mode, current_transcription_id,
                   storeVars, clientVars, transcriptions, worker, clock, events, utterances,
                   commands, stopped>>

\* EmitResults with the texts of stage 4 and stage 5 exchanged
EmitResultsExchanged ==
    /\ pc = "emit"
    /\ events' = events \o <<StageEvent(4, run.toned_sentence),
                             StageEvent(5, run.corrected_sentence),
                             FullSentenceEvent(run.final_sentence, clock)>>
    /\ pc' = "store"
    /\ UNCHANGED <<callVars, detectorVars, recording_active, current_tone_mode, current_transcription_id,
                   storeVars, clientVars, transcriptions, run, worker, clock, utterances,
                   commands, stopped>>

\* stage 4, stage 5 and the final result
EmitResults ==
    /\ pc = "emit"
    /\ events' = events \o <<StageEvent(4, run.corrected_sentence),
                             StageEvent(5, run.toned_sentence),
                             FullSentenceEvent(run.final_sentence, clock)>>
    /\ pc' = "store"
    /\ UNCHANGED <<callVars, detectorVars, recording_active, current_tone_mode, current_transcription_id,
                   storeVars, clientVars, transcriptions, run, worker, clock, utterances,
                   commands, stopped>>

\* the dict run_recorder hands to db.store_transcription
PipelineRecord(r, tone_mode, utterance) ==
    [original |-> r.full_sentence, cleaned |-> r.cleaned_sentence,
     filtered |-> r.filtered_sentence, grammar_corrected |-> r.corrected_sentence,
     tone_transformed |-> r.toned_sentence, final_output |-> r.final_sentence,
     tone_mode |-> tone_mode, utterance |-> utterance]

\* current_transcription_id = db.store_transcription({...})
Store ==
    /\ pc = "store"
    /\ ~InsertFails(current_tone_mode)
    /\ transcriptions' =
           Append(transcriptions,
                  TranscriptionRow(PipelineRecord(run, current_tone_mode, utterances)))
    /\ current_transcription_id' = Len(transcriptions) + 1
    /\ pc' = "complete"
    /\ UNCHANGED <<callVars, detectorVars, recording_active, current_tone_mode, storeVars, clientVars, run, worker,
                   clock, events, utterances, commands, stopped>>

\* the INSERT raises: "except Exception as e: ... continue"
StoreFails ==
    /\ pc = "store"
    /\ InsertFails(current_tone_mode)
    /\ run' = [run EXCEPT !.raised = "store"]
    /\ pc' = "wait"
    /\ UNCHANGED <<callVars, detectorVars, recording_active, current_tone_mode, current_transcription_id,
                   storeVars, clientVars, transcriptions, worker, clock, events,
                   utterances, commands, stopped>>

\* log_transcript(...) (a CSV line, its own try/except), the
\* recording_complete message, recording_active.clear()
Complete ==
    /\ pc = "complete"
    /\ events' = Append(events, CompleteEvent(FALSE, clock))
    /\ recording_active' = FALSE
    /\ pc' = "wait"
    /\ UNCHANGED <<callVars, detectorVars, current_tone_mode, current_transcription_id, storeVars, clientVars,
                   transcriptions, run, worker, clock, utterances, commands, stopped>>

(***************************************************************************)
(* server.py: echo, the control-message handler on the event loop          *)
(***************************************************************************)
threadVars == <<pc, run, worker, clock, events, utterances>>

\* no start_recording handled yet
NoStart == [handled |-> 0, during |-> 0]

\* the thread is between recorder.text() returning an utterance and the end
\* of that pass of its loop
InFlight == pc \notin {"wait", "text"}

\* {"command": "start_recording"}; started counts it and keeps the number
\* of the utterance whose run was in flight, 0 when none was
StartRecording ==
    /\ connected
    /\ commands > 0
    /\ commands' = commands - 1
    /\ recording_active' = TRUE
    /\ stopped' = FALSE
    /\ started' = [handled |-> started.handled + 1,
                   during |-> IF InFlight THEN utterances ELSE 0]
    /\ UNCHANGED <<callVars, detectorVars, current_tone_mode, current_transcription_id, storeVars,
                   connected, ignored, transcriptions, threadVars>>

\* {"command": "stop_recording"}
StopRecording ==
    /\ connected
    /\ commands > 0
    /\ commands' = commands - 1
    /\ recording_active' = FALSE
    /\ stopped' = TRUE
    /\ started' = [started EXCEPT !.during = 0]
    /\ UNCHANGED <<callVars, detectorVars, current_tone_mode, current_transcription_id, storeVars,
                   connected, ignored, transcriptions, threadVars>>

\* {"command": "set_tone", "mode": mode}
SetTone(mode) ==
    /\ connected
    /\ commands > 0
    /\ commands' = commands - 1
    /\ current_tone_mode' = mode
    /\ UNCHANGED <<callVars, detectorVars, recording_active, current_transcription_id, storeVars, clientVars,
                   transcriptions, threadVars, stopped>>

\* {"command": "feedback", ...}: a manual correction
Feedback(cmd) ==
    /\ connected
    /\ commands > 0
    /\ commands' = commands - 1
    /\ StoresBecome(StoreFeedback(Stores, cmd))
    /\ UNCHANGED <<callVars, detectorVars, recording_active, current_tone_mode, current_transcription_id,
                   transcriptions, threadVars, stopped, clientVars>>

(***************************************************************************)
(* The server as a whole                                                   *)
(***************************************************************************)
\* the server as main() starts it on the stores a past session left, with
\* budget control messages to come
\* the server runs call no text function on its own and build no detector
NoCall == fn = "none" /\ arg = EmptyText /\ failure = "none" /\ returned = << >>

NoDetector ==
    /\ detector = "none" /\ wallclock = 0 /\ answer = "none"
    /\ calls = << >> /\ times = << >>
    /\ tracker = "none" /\ threads = "none"

StartUp(stores, budget) ==
    /\ recording_active = FALSE
    /\ current_tone_mode = "neutral"
    /\ current_transcription_id = 0
    /\ \E st \in stores :
           /\ corrections = st.corrections
           /\ learned_rules = st.learned_rules
           /\ memory = st.memory
           /\ feedback = st.feedback
           /\ memory_file = st.memory_file
    /\ transcriptions = << >>
    /\ pc = "wait"
    /\ run = NewRun(EmptyText)
    /\ worker = IdleWorker
    /\ clock = 0
    /\ events = << >>
    /\ utterances = 0
    /\ commands = budget
    /\ stopped = FALSE
    /\ connected = TRUE
    /\ ignored = 0
    /\ started = NoStart

Init == StartUp(InitialStores, MaxCommands) /\ NoCall /\ NoDetector

Next ==
    \/ Wait
    \/ \E u \in Utterances : Transcribe(u)
    \/ Lookup
    \/ Count
    \/ EmitLearned
    \/ Stage1
    \/ Dedup
    \/ Disfluency
    \/ \E e \in ElapsedChoices : TimeBudget(e)
    \/ SkipGrammar
    \/ \E d \in GrammarDurations : SubmitGrammar(d)
    \/ GrammarResult
    \/ GrammarTimeout
    \/ ExecutorExit
    \/ Tone
    \/ ToneRaises
    \/ Format
    \/ EmitResults
    \/ Store
    \/ StoreFails
    \/ Complete
    \/ StartRecording
    \/ StopRecording
    \/ \E m \in ToneModes : SetTone(m)
    \/ \E c \in FeedbackCommands : Feedback(c)

Spec == Init /\ [][Next]_vars

(***************************************************************************)
(* server.py: echo and the stores, with the recorder thread waiting        *)
(***************************************************************************)
\* control messages the client sends in one behaviour of StoreSpec
MaxStoreCommands == 3

IGottaGo == <<CapTok("i"), Tok("gotta"), Tok("go")>>

IGottaSleep == <<CapTok("i"), Tok("gotta"), Tok("sleep")>>

IGottaEat == <<CapTok("i"), Tok("gotta"), Tok("eat")>>

IMustLeave == <<CapTok("i"), Tok("must"), Tok("leave")>>

IMustSleep == <<CapTok("i"), Tok("must"), Tok("sleep")>>

IMustGo == <<CapTok("i"), Tok("must"), Tok("go")>>

IMustEat == <<CapTok("i"), Tok("must"), Tok("eat")>>

IShouldGo == <<CapTok("i"), Tok("should"), Tok("go")>>

IShouldEat == <<CapTok("i"), Tok("should"), Tok("eat")>>

Leave == <<CapTok("leave")>>

Correction(original, user_correction, tone_mode) ==
    [original |-> original, system_output |-> EmptyText,
     user_correction |-> user_correction, tone_mode |-> tone_mode]

\* the corrections of test_database.py and test_feedback.py
GoLeaveFormal == Correction(IGottaGo, IMustLeave, "formal")

SleepFormal == Correction(IGottaSleep, IMustSleep, "formal")

\* the same original in lower case, with another correction
GoMustFormal == Correction(Lower(IGottaGo), IMustGo, "formal")

\* the same correction under another tone mode
GoLeaveCasual == Correction(IGottaGo, IMustLeave, "casual")

\* a correction of fewer words than its original
GoShortFormal == Correction(IGottaGo, Leave, "formal")

\* a correction of a word that is itself another rule's to-word
MustShouldFormal == Correction(IMustGo, IShouldGo, "formal")

\* "tone_mode": null
GoLeaveNull == Correction(IGottaGo, IMustLeave, NullMode)

Corrections ==
    {GoLeaveFormal, SleepFormal, GoMustFormal, GoLeaveCasual, GoShortFormal,
     MustShouldFormal, GoLeaveNull}

\* the approve and reject commands: original, output, tone_mode
Verdicts ==
    {[original |-> IGottaGo, output |-> IMustLeave, tone_mode |-> m] :
        m \in {"formal", NullMode}}

\* the texts and tone modes the stores are asked about
Questions == {IGottaGo, Lower(IGottaGo), IGottaEat}

QuestionModes == {"neutral", "formal", "casual", NullMode}

\* messages echo has no branch for: text that json.loads rejects, JSON that
\* is no object (control.get raises AttributeError), an unknown command
OddMessages == {"not JSON", "no object", "unknown command"}

\* what a past session can have left: nothing; the stores of Spec; the rule
\* gotta -> must three times and the rule must -> should twice
StoreInitialStores ==
    InitialStores \cup
    {StoresAfter(<<GoMustFormal, GoMustFormal, GoMustFormal,
                   MustShouldFormal, MustShouldFormal>>)}

\* Ignore, were the exception to leave the loop: "finally" runs
IgnoreEscapes(message) ==
    /\ connected
    /\ commands > 0
    /\ commands' = commands - 1
    /\ ignored' = ignored + 1
    /\ connected' = (message = "unknown command")
    /\ recording_active' = (recording_active /\ connected')
    /\ UNCHANGED <<callVars, detectorVars, current_tone_mode, current_transcription_id,
                   storeVars, transcriptions, threadVars, stopped, started>>

\* a message of OddMessages: json.loads or control.get raises and "except
\* Exception" prints and continues, or no branch is taken and the loop continues
Ignore(message) ==
    /\ connected
    /\ commands > 0
    /\ commands' = commands - 1
    /\ ignored' = ignored + 1
    /\ UNCHANGED <<callVars, detectorVars, recording_active, current_tone_mode, current_transcription_id,
                   storeVars, transcriptions, threadVars, stopped, connected, started>>

\* {"command": "approve", ...}
Approve(cmd) ==
    /\ connected
    /\ commands > 0
    /\ commands' = commands - 1
    /\ IF InsertFails(cmd.tone_mode)
       THEN UNCHANGED <<callVars, detectorVars, feedback, memory, memory_file>>
       ELSE /\ feedback' = store_feedback(feedback, "approve", cmd.original, cmd.output,
                                          cmd.tone_mode, current_transcription_id)
            /\ memory' = approve_output(memory, cmd.original, cmd.output, cmd.tone_mode)
            /\ memory_file' = save_memory(memory')
    /\ UNCHANGED <<callVars, detectorVars, recording_active, current_tone_mode, current_transcription_id,
                   corrections, learned_rules, transcriptions, threadVars, stopped,
                   clientVars>>

\* {"command": "reject", ...}
Reject(cmd) ==
    /\ connected
    /\ commands > 0
    /\ commands' = commands - 1
    /\ IF InsertFails(cmd.tone_mode)
       THEN UNCHANGED <<callVars, detectorVars, feedback, memory, memory_file>>
       ELSE /\ feedback' = store_feedback(feedback, "reject", cmd.original, cmd.output,
                                          cmd.tone_mode, current_transcription_id)
            /\ memory' = reject_output(memory, cmd.original, cmd.output, cmd.tone_mode)
            /\ memory_file' = save_memory(memory')
    /\ UNCHANGED <<callVars, detectorVars, recording_active, current_tone_mode, current_transcription_id,
                   corrections, learned_rules, transcriptions, threadVars, stopped,
                   clientVars>>

\* the client closes the connection: the loop ends and "finally" clears the flag
Disconnect ==
    /\ connected
    /\ commands > 0
    /\ commands' = commands - 1
    /\ connected' = FALSE
    /\ recording_active' = FALSE
    /\ UNCHANGED <<callVars, detectorVars, current_tone_mode, current_transcription_id, storeVars,
                   transcriptions, threadVars, stopped, ignored, started>>

\* a client connects: websockets.serve calls echo
Connect ==
    /\ ~connected
    /\ commands > 0
    /\ commands' = commands - 1
    /\ connected' = TRUE
    /\ UNCHANGED <<callVars, detectorVars, recording_active, current_tone_mode, current_transcription_id,
                   storeVars, transcriptions, threadVars, stopped, ignored, started>>

\* the process starts again on the files file holds: the module level of
\* server.py runs, FeedbackMemory() loads the file, a client connects
ProcessStarts(file) ==
    /\ memory' = load_memory(file)
    /\ memory_file' = file
    /\ recording_active' = FALSE
    /\ current_tone_mode' = "neutral"
    /\ current_transcription_id' = 0
    /\ stopped' = FALSE
    /\ connected' = TRUE

\* the process is killed between two messages and started again
Restart ==
    /\ commands > 0
    /\ commands' = commands - 1
    /\ ProcessStarts(memory_file)
    /\ UNCHANGED <<callVars, detectorVars, corrections, learned_rules, feedback, transcriptions,
                   threadVars, ignored, started>>

\* the process is killed while the feedback command cmd is in save_memory,
\* after open(memory_file, 'w') has emptied the file and before json.dump
\* has written all of it; store_correction has committed by then
CrashInSave(cmd) ==
    /\ connected
    /\ commands > 0
    /\ commands' = commands - 1
    /\ ~InsertFails(cmd.tone_mode)
    /\ LET st == StoreFeedback(Stores, cmd)
       IN  /\ corrections' = st.corrections
           /\ learned_rules' = st.learned_rules
    /\ ProcessStarts(CutShort)
    /\ UNCHANGED <<callVars, detectorVars, feedback, transcriptions, threadVars, ignored,
                   started>>

StoreInit == StartUp(StoreInitialStores, MaxStoreCommands) /\ NoCall /\ NoDetector

StoreNext ==
    \/ StartRecording
    \/ SetTone("casual")
    \/ \E c \in Corrections : Feedback(c)
    \/ \E v \in Verdicts : Approve(v)
    \/ \E v \in Verdicts : Reject(v)
    \/ \E m \in OddMessages : Ignore(m)
    \/ Disconnect
    \/ Connect
    \/ Restart
    \/ CrashInSave(GoLeaveFormal)

StoreSpec == StoreInit /\ [][StoreNext]_vars

(***************************************************************************)
(* feedback_memory.py: get_simple_correction and auto_improve              *)
(***************************************************************************)
\* what the 'formal' replacements of get_simple_correction make of one
\* lower-case word that holds a key only as the whole word
FormalReplacement(word) ==
    CASE word = "gotta" -> <<"must">>
      [] word = "wanna" -> <<"want", "to">>
      [] word = "gonna" -> <<"going", "to">>
      [] word = "yeah" -> <<"yes">>
      [] word = "nope" -> <<"no">>
      [] word = "hey" -> <<"hello">>
      [] word = "dude" -> <<"sir/madam">>
      [] word = "bruh" -> << >>
      [] word = "kinda" -> <<"somewhat">>
      [] word = "sorta" -> <<"somewhat">>
      [] OTHER -> <<word>>

\* one token under the 'formal' replacements: str.replace is case-sensitive,
\* so a capitalised key stays; the punctuation stays after the last word
ReplaceFormal(t) ==
    LET words == FormalReplacement(t.w)
        n == Len(words)
    IN  IF t.cap THEN <<t>>
        ELSE IF n = 0 THEN (IF t.p = "" THEN << >> ELSE <<[t EXCEPT !.w = ""]>>)
        ELSE [i \in 1..n |-> IF i = n THEN [t EXCEPT !.w = words[n]] ELSE Tok(words[i])]

RECURSIVE ReplaceCasual(_)
\* the 'casual' replacements: 'must', and the two-word keys 'want to' and
\* 'going to', which match across one space
ReplaceCasual(text) ==
    IF text = EmptyText THEN EmptyText
    ELSE IF /\ Len(text) >= 2
            /\ ~text[1].cap /\ text[1].w \in {"want", "going"} /\ text[1].p = ""
            /\ ~text[2].cap /\ text[2].w = "to"
         THEN <<[text[2] EXCEPT !.w = IF text[1].w = "want" THEN "wanna" ELSE "gonna"]>>
              \o ReplaceCasual(Tail(Tail(text)))
    ELSE IF ~text[1].cap /\ text[1].w = "must"
         THEN <<[text[1] EXCEPT !.w = "gotta"]>> \o ReplaceCasual(Tail(text))
    ELSE <<text[1]>> \o ReplaceCasual(Tail(text))

RECURSIVE ReplaceFormalAll(_)
ReplaceFormalAll(text) ==
    IF text = EmptyText THEN EmptyText
    ELSE ReplaceFormal(text[1]) \o ReplaceFormalAll(Tail(text))

\* get_simple_correction: the replacements of the tone mode, then strip();
\* any other tone mode has no replacements
get_simple_correction(text, tone_mode) ==
    IF tone_mode = "formal" THEN ReplaceFormalAll(text)
    ELSE IF tone_mode = "casual" THEN ReplaceCasual(text)
    ELSE text

\* auto_improve: the memory it leaves and what it returns; None when the
\* simple correction is the original
auto_improve(mem, original, wrong_output, tone_mode) ==
    LET simple_correction == get_simple_correction(original, tone_mode)
    IN  IF simple_correction # original
        THEN [memory |-> add_correction(mem, original, wrong_output,
                                        simple_correction, tone_mode),
              saved |-> TRUE,
              correction |-> Some(simple_correction)]
        ELSE [memory |-> mem, saved |-> FALSE, correction |-> NoText]

(***************************************************************************)
(* server.py: the feedback commands of echo, from two empty stores         *)
(***************************************************************************)
\* control messages the client sends in one behaviour of LearnSpec
MaxLearnCommands == 3

\* {"command": "auto_improve", ...}: feedback_memory.auto_improve, and
\* db.store_correction "if correction"
AutoImprove(cmd) ==
    /\ connected
    /\ commands > 0
    /\ commands' = commands - 1
    /\ LET improved == auto_improve(memory, cmd.original, cmd.wrong_output,
                                    cmd.tone_mode)
       IN  /\ memory' = improved.memory
           /\ memory_file' = IF improved.saved THEN save_memory(improved.memory)
                             ELSE memory_file
           /\ IF Truthy(improved.correction) /\ ~InsertFails(cmd.tone_mode)
              THEN /\ corrections' =
                          Append(corrections,
                                 CorrectionRow(cmd.original, cmd.wrong_output,
                                               improved.correction.text, "auto",
                                               cmd.tone_mode))
                   /\ learned_rules' =
                          _extract_and_store_rules(learned_rules, Lower(cmd.original),
                                                   Lower(improved.correction.text),
                                                   cmd.tone_mode)
              ELSE UNCHANGED <<corrections, learned_rules>>
    /\ UNCHANGED <<callVars, detectorVars, recording_active, current_tone_mode,
                   current_transcription_id, feedback, transcriptions, threadVars,
                   stopped, clientVars>>

Bruh == <<Tok("bruh")>>

AutoImproveCommand(original, tone_mode) ==
    [original |-> original, wrong_output |-> EmptyText, tone_mode |-> tone_mode]

\* the auto_improve commands: a text with a key, a text that is a key and
\* nothing more, the casual direction, and a text with no key
AutoImproveCommands ==
    {AutoImproveCommand(IGottaGo, "formal"), AutoImproveCommand(Bruh, "formal"),
     AutoImproveCommand(IMustGo, "casual"), AutoImproveCommand(IShouldGo, "formal")}

\* one correction with the same word pair at two places
GoGoFormal == Correction(<<Tok("go"), Tok("go")>>, <<Tok("leave"), Tok("leave")>>, "formal")

\* words that hold the arrow of the rule key (written "->" here)
ArrowFromFormal == Correction(<<Tok("go->stay")>>, <<Tok("leave")>>, "formal")

ArrowToFormal == Correction(<<Tok("go")>>, <<Tok("stay->leave")>>, "formal")

\* a word and a tone mode that hold the colon of the rule key
ColonWord == Correction(<<Tok("go")>>, <<Tok("leave:very")>>, "formal")

ColonMode == Correction(<<Tok("go")>>, <<Tok("leave")>>, "very:formal")

LearnCorrections ==
    {GoLeaveFormal, GoLeaveCasual, GoGoFormal, ArrowFromFormal, ArrowToFormal,
     ColonWord, ColonMode}

\* the approve and reject commands that complete
LearnVerdicts == {v \in Verdicts : ~InsertFails(v.tone_mode)}

LearnInit == StartUp({EmptyStores}, MaxLearnCommands) /\ NoCall /\ NoDetector

LearnNext ==
    \/ \E c \in LearnCorrections : Feedback(c)
    \/ \E v \in LearnVerdicts : Approve(v)
    \/ \E v \in LearnVerdicts : Reject(v)
    \/ \E c \in AutoImproveCommands : AutoImprove(c)

LearnSpec == LearnInit /\ [][LearnNext]_vars

(***************************************************************************)
(* paragraph_detector.py: ParagraphDetector.is_question                    *)
(***************************************************************************)
question_starters ==
    {"what", "where", "when", "why", "who", "whom", "whose", "which", "how",
     "is", "are", "was", "were", "am", "do", "does", "did", "can", "could",
     "would", "should", "will", "shall", "have", "has", "had", "may", "might",
     "must"}

\* the words of the model's texts that begin with need, want, should, can
\* or could
ModalStart == {"need", "needs", "want", "wanted", "should", "can", "cannot", "could"}

\* ... that begin with to
ToStart == {"to", "tomorrow", "today", "tonight"}

\* ... that begin with what
WhatStart == {"what", "whatever"}

\* ... that end with know, with tell
KnowEnd == {"know"}

TellEnd == {"tell", "retell"}

\* token i of t is one of words and a blank follows it directly
BareAt(t, i, words) == i <= Len(t) /\ t[i].p = "" /\ t[i].w \in words

\* re.search over non_question_patterns finds a match in text_lower
Excluded(t) ==
    LET n == Len(t)
    IN  \/ BareAt(t, 1, {"what"}) /\ BareAt(t, 2, {"i'm", "im"}) /\ n >= 3
        \/ BareAt(t, 1, {"what"}) /\ BareAt(t, 2, {"i"}) /\ BareAt(t, 3, {"am"}) /\ n >= 4
        \/ BareAt(t, 1, {"what"}) /\ BareAt(t, 2, {"a"}) /\ n >= 3
        \/ /\ BareAt(t, 1, {"what"})
           /\ BareAt(t, 2, {"we", "they", "he", "she", "it"})
           /\ n >= 3 /\ t[3].w \in ModalStart
        \/ \E i \in 1..n-2 :
               BareAt(t, i, KnowEnd) /\ BareAt(t, i + 1, {"what"}) /\ t[i+2].w \in ToStart
        \/ \E i \in 1..n-2 :
               BareAt(t, i, TellEnd) /\ BareAt(t, i + 1, {"me"}) /\ t[i+2].w \in WhatStart

\* first_word in question_starters: the first blank-separated word, its
\* punctuation included
StartsQuestion(t) == t # EmptyText /\ t[1].p = "" /\ t[1].w \in question_starters

\* re.search over question_patterns: an auxiliary, blanks, a word character
AuxiliaryThenWord(t) ==
    /\ BareAt(t, 1, {"is", "are", "was", "were", "am", "do", "does", "did", "can",
                     "could", "would", "should", "will", "shall", "have", "has", "had"})
    /\ Len(t) >= 2 /\ t[2].w # ""

\* is_question taking the first word before the exclusions
is_questionStartersFirst(text) ==
    LET text_lower == Lower(text)
    IN  IF StartsQuestion(text_lower) THEN TRUE
        ELSE IF Excluded(text_lower) THEN FALSE
        ELSE AuxiliaryThenWord(text_lower)

is_question(text) ==
    LET text_lower == Lower(text)
    IN  IF Excluded(text_lower) THEN FALSE
        ELSE IF StartsQuestion(text_lower) THEN TRUE
        ELSE AuxiliaryThenWord(text_lower)

(***************************************************************************)
(* Calls of the text functions on bounded inputs                           *)
(***************************************************************************)
\* the longest token sequence handed to dedupe_repetition
MaxTokens == 6

\* the longest word sequence handed to transform and correct_text
MaxWords == 3

\* how often a function is applied to its own output
MaxApplications == 2

\* the variables of the server, which a function call leaves alone
serverVars ==
    <<recording_active, current_tone_mode, current_transcription_id, transcriptions,
      threadVars, commands, stopped, storeVars, clientVars>>

RECURSIVE SeqsUpTo(_, _)
\* the sequences of at most n elements of S
SeqsUpTo(S, n) ==
    IF n = 0 THEN {<< >>}
    ELSE LET shorter == SeqsUpTo(S, n - 1)
         IN  shorter \cup {Append(t, x) : t \in {u \in shorter : Len(u) = n - 1}, x \in S}

\* tokens whose words share no letter, one of them also capitalized
DedupeTokens == {Tok("go"), Tok("um"), CapTok("go")}

DedupeInputs == SeqsUpTo(DedupeTokens, MaxTokens)

ToneWords == {"you", "um", "know", "hey", "go"}

ToneInputs == SeqsUpTo({Tok(w) : w \in ToneWords}, MaxWords)

IHaveATomorrowMatch == Text(<<"i", "have", "a", "tomorrow", "match">>)

SampleTimeWords == {"tomorrow", "monday", "evening"}

SampleNouns == {"apple", "umbrella", "evening", "match"}

\* 'a' + time word + noun, alone and after "i have"
ArticleTimeNoun(prefix, time_word, noun) == Text(prefix \o <<"a", time_word, noun>>)

GrammarWords == {"i", "a", "tomorrow", "apple", "match"}

GrammarInputs ==
    SeqsUpTo({Tok(w) : w \in GrammarWords}, MaxWords)
        \cup {ArticleTimeNoun(prefix, t, n) :
                  prefix \in {<< >>, <<"i", "have">>}, t \in SampleTimeWords, n \in SampleNouns}
        \cup {<<[w |-> "go", cap |-> FALSE, p |-> "!"]>>, <<CapTok("go"), Tok("um")>>}

QuestionTokens ==
    {Tok(w) : w \in {"what", "i'm", "a", "we", "need", "know", "to", "tell", "me",
                     "is", "day"}}
        \cup {CapTok("what"), [w |-> "what", cap |-> FALSE, p |-> ","]}

WhatIAmTryingToSay == Text(<<"what", "i", "am", "trying", "to", "say">>)

DoYouKnowWhatToDo == Text(<<"do", "you", "know", "what", "to", "do">>)

CanYouTellMeWhatever == Text(<<"can", "you", "tell", "me", "whatever">>)

QuestionInputs ==
    SeqsUpTo(QuestionTokens, MaxWords)
        \cup {WhatIAmTryingToSay, DoYouKnowWhatToDo, CanYouTellMeWhatever}

\* the calls inside the try block of correct_text that are made to raise
Failures == {"none", "fix_word_order", "add_punctuation"}

\* except Exception: text[0].upper() + text[1:], then '.' unless the text
\* ends in one of . ! ?
Fallback(text) ==
    LET t == CapitalizeFirst(text)
        n == Len(t)
    IN  IF EndsSentence(t[n].p) THEN t ELSE [t EXCEPT ![n] = [@ EXCEPT !.p = @ \o "."]]

\* try_correct_text without the except branch
try_correct_textUncaught(text, failing) ==
    IF text = EmptyText THEN [raised |-> FALSE, text |-> text]
    ELSE IF failing = "none" THEN [raised |-> FALSE, text |-> correct_text(text)]
    ELSE [raised |-> TRUE, text |-> EmptyText]

\* GrammarProcessor.correct_text as a call: the early return, the try block
\* in which the call named by failing raises, and the except branch
try_correct_text(text, failing) ==
    IF text = EmptyText THEN [raised |-> FALSE, text |-> text]
    ELSE IF failing = "none" THEN [raised |-> FALSE, text |-> correct_text(text)]
    ELSE [raised |-> FALSE, text |-> Fallback(text)]

\* the text the next call is made with
Latest == IF returned = << >> THEN arg ELSE returned[Len(returned)]

\* cleaned = dedupe_repetition(text), then once more on what it returned
CallDedupe ==
    /\ fn = "dedupe_repetition"
    /\ Len(returned) < MaxApplications
    /\ returned' = Append(returned, dedupe_repetition(Latest))
    /\ UNCHANGED <<fn, arg, failure, detectorVars, serverVars>>

\* toned = tone_controller.transform(text, 'neutral'), then once more
CallNeutral ==
    /\ fn = "transform"
    /\ Len(returned) < MaxApplications
    /\ LET r == transform(Latest, "neutral")
       IN  /\ ~r.raised
           /\ returned' = Append(returned, r.text)
    /\ UNCHANGED <<fn, arg, failure, detectorVars, serverVars>>

\* corrected = grammar.correct_text(text)
CallGrammar ==
    /\ fn = "correct_text"
    /\ returned = << >>
    /\ returned' = <<try_correct_text(arg, failure)>>
    /\ UNCHANGED <<fn, arg, failure, detectorVars, serverVars>>

WordOrderTokens ==
    {Tok(w) : w \in {"a", "tomorrow", "always", "match", "is"}} \cup {CapTok("the")}

IGoAlwaysATomorrowMatch == Text(<<"i", "go", "always", "a", "tomorrow", "match">>)

WordOrderInputs == SeqsUpTo(WordOrderTokens, MaxWords) \cup {IGoAlwaysATomorrowMatch}

\* corrected = self.fix_word_order(corrected)
CallWordOrder ==
    /\ fn = "fix_word_order"
    /\ returned = << >>
    /\ returned' = <<fix_word_order(arg)>>
    /\ UNCHANGED <<fn, arg, failure, detectorVars, serverVars>>

\* mode strings: three known modes and one that transform does not know
ModeStrings == {"neutral", "formal", "casual", "robotic"}

\* tone_controller.transform(text, mode); arg holds the text and the mode
CallTransform ==
    /\ fn = "transform in a mode"
    /\ returned = << >>
    /\ returned' = <<transform(arg.text, arg.mode)>>
    /\ UNCHANGED <<fn, arg, failure, detectorVars, serverVars>>

\* detector.is_question(text)
CallIsQuestion ==
    /\ fn = "is_question"
    /\ returned = << >>
    /\ returned' = <<is_question(arg)>>
    /\ UNCHANGED <<fn, arg, failure, detectorVars, serverVars>>

TextInit ==
    /\ StartUp({EmptyStores}, 0)
    /\ NoDetector
    /\ \/ fn = "dedupe_repetition" /\ arg \in DedupeInputs /\ failure = "none"
       \/ fn = "transform" /\ arg \in ToneInputs /\ failure = "none"
       \/ fn = "correct_text" /\ arg \in GrammarInputs /\ failure \in Failures
       \/ fn = "is_question" /\ arg \in QuestionInputs /\ failure = "none"
       \/ fn = "fix_word_order" /\ arg \in WordOrderInputs /\ failure = "none"
       \/ /\ fn = "transform in a mode"
          /\ arg \in [text : ToneInputs, mode : ModeStrings]
          /\ failure = "none"
    /\ returned = << >>

TextNext ==
    \/ CallDedupe
    \/ CallNeutral
    \/ CallGrammar
    \/ CallIsQuestion
    \/ CallWordOrder
    \/ CallTransform

TextSpec == TextInit /\ [][TextNext]_vars

(***************************************************************************)
(* paragraph_detector.py: ParagraphDetector, time in ticks of 0.5 s        *)
(***************************************************************************)
\* the last tick of time.time() in one behaviour
MaxTime == 4

\* how many calls that change the detector one behaviour has
MaxCalls == 3

\* silence_start = None, silence_duration = None
None == [some |-> FALSE, at |-> 0]

At(t) == [some |-> TRUE, at |-> t]

\* ParagraphDetector(sentence_pause, paragraph_pause) built at time t
ParagraphDetector(sentence_pause, paragraph_pause, t) ==
    [sentence_pause |-> sentence_pause, paragraph_pause |-> paragraph_pause,
     last_voice_time |-> t, silence_start |-> None, is_silent |-> FALSE]

mark_voice_activity(d, t) ==
    IF d.is_silent
    THEN [d EXCEPT !.last_voice_time = t, !.is_silent = FALSE, !.silence_start = None]
    ELSE [d EXCEPT !.last_voice_time = t]

\* mark_silence_start, were every call to take the time
mark_silence_startRestarts(d, t) ==
    [d EXCEPT !.is_silent = TRUE, !.silence_start = At(t)]

mark_silence_start(d, t) ==
    IF ~d.is_silent
    THEN [d EXCEPT !.is_silent = TRUE, !.silence_start = At(t)]
    ELSE d

\* if self.is_silent and self.silence_start: a start of 0.0 is falsy
get_silence_duration(d, t) ==
    IF d.is_silent /\ d.silence_start.some /\ d.silence_start.at # 0
    THEN t - d.silence_start.at
    ELSE 0

\* detect_break_type with > for >=
detect_break_typeStrict(d, silence_duration, t) ==
    LET duration == IF silence_duration = None THEN get_silence_duration(d, t)
                    ELSE silence_duration.at
    IN  IF duration > d.paragraph_pause THEN "paragraph"
        ELSE IF duration > d.sentence_pause THEN "sentence"
        ELSE "none"

detect_break_type(d, silence_duration, t) ==
    LET duration == IF silence_duration = None THEN get_silence_duration(d, t)
                    ELSE silence_duration.at
    IN  IF duration >= d.paragraph_pause THEN "paragraph"
        ELSE IF duration >= d.sentence_pause THEN "sentence"
        ELSE "none"

\* reset leaving silence_start as it is
resetKeepsStart(d, t) ==
    [d EXCEPT !.last_voice_time = t, !.is_silent = FALSE]

reset(d, t) ==
    [d EXCEPT !.last_voice_time = t, !.silence_start = None, !.is_silent = FALSE]

\* sentence_pause and paragraph_pause: the defaults 2.0 and 5.0, short
\* pauses, and equal pauses
Thresholds == {<<4, 10>>, <<1, 2>>, <<2, 2>>}

\* the durations detect_break_type is asked about: 1.0, 2.0, 2.5, 5.0 and
\* 6.0 s among them
Durations == {0, 1, 2, 3, 4, 5, 9, 10, 12}

NoAnswer == [call |-> "none", duration |-> 0, result |-> "none"]

\* time.time() moves on
Tick ==
    /\ wallclock < MaxTime
    /\ wallclock' = wallclock + 1
    /\ UNCHANGED <<detector, answer, calls, times, tracker, threads, callVars, serverVars>>

MarkVoiceActivity ==
    /\ Len(calls) < MaxCalls
    /\ detector' = mark_voice_activity(detector, wallclock)
    /\ calls' = Append(calls, "mark_voice_activity")
    /\ times' = Append(times, wallclock)
    /\ UNCHANGED <<wallclock, answer, tracker, threads, callVars, serverVars>>

MarkSilenceStart ==
    /\ Len(calls) < MaxCalls
    /\ detector' = mark_silence_start(detector, wallclock)
    /\ calls' = Append(calls, "mark_silence_start")
    /\ times' = Append(times, wallclock)
    /\ UNCHANGED <<wallclock, answer, tracker, threads, callVars, serverVars>>

Reset ==
    /\ Len(calls) < MaxCalls
    /\ detector' = reset(detector, wallclock)
    /\ calls' = Append(calls, "reset")
    /\ times' = Append(times, wallclock)
    /\ UNCHANGED <<wallclock, answer, tracker, threads, callVars, serverVars>>

\* detector.detect_break_type(silence_duration)
DetectBreakType(silence_duration) ==
    /\ answer' = [call |-> "detect_break_type",
                  duration |-> IF silence_duration = None
                               THEN get_silence_duration(detector, wallclock)
                               ELSE silence_duration.at,
                  result |-> detect_break_type(detector, silence_duration, wallclock)]
    /\ UNCHANGED <<detector, wallclock, calls, times, tracker, threads, callVars, serverVars>>

DetectorInit ==
    /\ StartUp({EmptyStores}, 0)
    /\ NoCall
    /\ wallclock = 1
    /\ \E th \in Thresholds : detector = ParagraphDetector(th[1], th[2], wallclock)
    /\ answer = NoAnswer
    /\ calls = << >>
    /\ times = << >>
    /\ tracker = "none"
    /\ threads = "none"

DetectorNext ==
    \/ Tick
    \/ MarkVoiceActivity
    \/ MarkSilenceStart
    \/ Reset
    \/ \E d \in {None} \cup {At(x) : x \in Durations} : DetectBreakType(d)

DetectorSpec == DetectorInit /\ [][DetectorNext]_vars

(***************************************************************************)
(* silence_tracker.py: SilenceTracker, time in ticks of 0.5 s              *)
(***************************************************************************)
\* the threads that call the tracker
Threads == {"t1", "t2"}

Idle == [pc |-> "idle", caller |-> "none"]

\* SilenceTracker() built at time t; lock is threading.Lock(), not held
SilenceTracker(t) ==
    [last_speech_time |-> t, silence_start_time |-> None,
     is_currently_silent |-> FALSE, last_silence_duration |-> 0, lock |-> "free"]

\* the body of mark_speech; "if self.silence_start_time" is false on 0.0
mark_speech(tr, t) ==
    IF tr.is_currently_silent
    THEN [tr EXCEPT !.last_speech_time = t,
                    !.last_silence_duration =
                        IF tr.silence_start_time.some /\ tr.silence_start_time.at # 0
                        THEN t - tr.silence_start_time.at
                        ELSE @,
                    !.is_currently_silent = FALSE,
                    !.silence_start_time = None]
    ELSE [tr EXCEPT !.last_speech_time = t]

\* the body of mark_silence
mark_silence(tr, t) ==
    IF ~tr.is_currently_silent
    THEN [tr EXCEPT !.is_currently_silent = TRUE, !.silence_start_time = At(t)]
    ELSE tr

\* the body of get_current_silence_duration
get_current_silence_duration(tr, t) ==
    IF /\ tr.is_currently_silent
       /\ tr.silence_start_time.some /\ tr.silence_start_time.at # 0
    THEN t - tr.silence_start_time.at
    ELSE 0

\* the body of SilenceTracker.reset
tracker_reset(tr, t) ==
    [tr EXCEPT !.last_speech_time = t, !.silence_start_time = None,
               !.is_currently_silent = FALSE, !.last_silence_duration = 0]

\* the dict get_stats builds once get_current_silence_duration has returned
get_stats(tr, t) ==
    [is_silent |-> tr.is_currently_silent,
     current_silence |-> get_current_silence_duration(tr, t),
     last_silence |-> tr.last_silence_duration,
     time_since_speech |-> t - tr.last_speech_time]

\* thread th calls mark_speech: "with self.lock" waits for the lock, the
\* body runs and the lock is released
MarkSpeech(th) ==
    /\ Len(calls) < MaxCalls
    /\ threads[th].pc = "idle"
    /\ tracker.lock = "free"
    /\ tracker' = mark_speech(tracker, wallclock)
    /\ calls' = Append(calls, "mark_speech")
    /\ times' = Append(times, wallclock)
    /\ UNCHANGED <<detector, wallclock, answer, threads, callVars, serverVars>>

MarkSilence(th) ==
    /\ Len(calls) < MaxCalls
    /\ threads[th].pc = "idle"
    /\ tracker.lock = "free"
    /\ tracker' = mark_silence(tracker, wallclock)
    /\ calls' = Append(calls, "mark_silence")
    /\ times' = Append(times, wallclock)
    /\ UNCHANGED <<detector, wallclock, answer, threads, callVars, serverVars>>

TrackerReset(th) ==
    /\ Len(calls) < MaxCalls
    /\ threads[th].pc = "idle"
    /\ tracker.lock = "free"
    /\ tracker' = tracker_reset(tracker, wallclock)
    /\ calls' = Append(calls, "SilenceTracker.reset")
    /\ times' = Append(times, wallclock)
    /\ UNCHANGED <<detector, wallclock, answer, threads, callVars, serverVars>>

\* thread th calls get_current_silence_duration
GetCurrentSilenceDuration(th) ==
    /\ threads[th].pc = "idle"
    /\ threads' = [threads EXCEPT ![th] =
                      [pc |-> "get_current_silence_duration", caller |-> "none"]]
    /\ UNCHANGED <<detector, wallclock, answer, calls, times, tracker, callVars,
                   serverVars>>

\* thread th calls get_stats: it takes the lock, reads is_currently_silent
\* and calls get_current_silence_duration with the lock held
GetStats(th) ==
    /\ threads[th].pc = "idle"
    /\ tracker.lock = "free"
    /\ tracker' = [tracker EXCEPT !.lock = th]
    /\ threads' = [threads EXCEPT ![th] =
                      [pc |-> "get_current_silence_duration", caller |-> "get_stats"]]
    /\ UNCHANGED <<detector, wallclock, answer, calls, times, callVars, serverVars>>

\* "with self.lock" of get_current_silence_duration: threading.Lock is not
\* reentrant, so the thread waits until the lock is free, whoever holds it.
\* Then the duration is returned, and get_stats, when it is the caller,
\* returns its dict and releases the lock it took.
DurationReturns(th) ==
    /\ threads[th].pc = "get_current_silence_duration"
    /\ tracker.lock = "free"
    /\ answer' =
           IF threads[th].caller = "get_stats"
           THEN [call |-> "get_stats", thread |-> th,
                 result |-> get_stats(tracker, wallclock)]
           ELSE [call |-> "get_current_silence_duration", thread |-> th,
                 result |-> get_current_silence_duration(tracker, wallclock)]
    /\ threads' = [threads EXCEPT ![th] = Idle]
    /\ UNCHANGED <<detector, wallclock, calls, times, tracker, callVars, serverVars>>

TrackerInit ==
    /\ StartUp({EmptyStores}, 0)
    /\ NoCall
    /\ detector = "none"
    /\ wallclock = 1
    /\ answer = NoAnswer
    /\ calls = << >>
    /\ times = << >>
    /\ tracker = SilenceTracker(wallclock)
    /\ threads = [th \in Threads |-> Idle]

TrackerNext ==
    \/ Tick
    \/ \E th \in Threads :
           \/ MarkSpeech(th)
           \/ MarkSilence(th)
           \/ TrackerReset(th)
           \/ GetCurrentSilenceDuration(th)
           \/ GetStats(th)
           \/ DurationReturns(th)

TrackerSpec == TrackerInit /\ [][TrackerNext]_vars

(***************************************************************************)
(* The detector and the tracker side by side                               *)
(***************************************************************************)
SilenceInit ==
    /\ StartUp({EmptyStores}, 0)
    /\ NoCall
    /\ wallclock = 1
    /\ detector = ParagraphDetector(4, 10, wallclock)
    /\ answer = NoAnswer
    /\ calls = << >>
    /\ times = << >>
    /\ tracker = SilenceTracker(wallclock)
    /\ threads = [th \in Threads |-> Idle]

SilenceNext ==
    \/ Tick
    \/ MarkVoiceActivity
    \/ MarkSilenceStart
    \/ Reset
    \/ \E th \in Threads : MarkSpeech(th) \/ MarkSilence(th) \/ TrackerReset(th)

SilenceSpec == SilenceInit /\ [][SilenceNext]_vars

(***************************************************************************)
(* What the client and the stores have seen of one utterance               *)
(***************************************************************************)
\* the messages sent for utterance u, in the order sent
EventsOf(u) == SelectSeq(events, LAMBDA e : e.utterance = u)

KindsOf(u) == [i \in 1..Len(EventsOf(u)) |-> <<EventsOf(u)[i].type, EventsOf(u)[i].stage>>]

TextsOf(u) == [i \in 1..Len(EventsOf(u)) |-> EventsOf(u)[i].text]

Has(u, type) == \E i \in 1..Len(events) : events[i].utterance = u /\ events[i].type = type

\* utterance u was answered from the learned corrections
ShortCircuited(u) == \E i \in 1..Len(events) : events[i].utterance = u /\ events[i].learned

RecordsOf(u) == {i \in 1..Len(transcriptions) : transcriptions[i].utterance = u}

AllKinds ==
    <<  <<"stage", 1>>, <<"stage", 2>>, <<"stage", 3>>, <<"stage", 4>>, <<"stage", 5>>,
        <<"fullSentence", 0>>, <<"recording_complete", 0>>  >>

LearnedKinds == <<  <<"stage", 1>>, <<"fullSentence", 0>>, <<"recording_complete", 0>>  >>

AllSteps == <<"dedup", "disfluency", "grammar", "tone", "format">>

SkipSteps == <<"dedup", "disfluency">>

IsPrefix(s, t) == Len(s) <= Len(t) /\ s = SubSeq(t, 1, Len(s))

\* the thread is back at the top of its loop after at least one utterance
RunEnded == utterances > 0 /\ pc \in {"wait", "text"}

(***************************************************************************)
(* C1                                                                      *)
(***************************************************************************)
\* C1: a learned output is taken as the utterance's result only when the
\* corrections table holds at least 3 rows with that corrected output for
\* the case-insensitively equal original text under the tone mode the count
\* query read; with fewer rows learned_output stays None and the pipeline runs.
C1_ConfidenceGating ==
    Truthy(run.learned_output) =>
        CorrectionCount(corrections, run.full_sentence, run.learned_output.text,
                        run.count_mode) >= ConfidenceThreshold

\* the count query has found three corrections and set learned_output
C1_Gated ==
    /\ pc = "branch"
    /\ Truthy(run.learned_output)
    /\ CorrectionCount(corrections, run.full_sentence, run.learned_output.text,
                       run.count_mode) = ConfidenceThreshold

(***************************************************************************)
(* C2                                                                      *)
(***************************************************************************)
\* C2: when future.result times out, the run goes on with the filtered text
\* and its fullSentence message is sent within MAX_LATENCY (1.5 s) of
\* start_time, not when the grammar worker is done.
C2_TimeoutDoesNotWait ==
    run.timed_out =>
        /\ run.corrected_sentence = run.filtered_sentence
        /\ \A i \in 1..Len(events) :
               (events[i].utterance = utterances /\ events[i].type = "fullSentence")
                   => events[i].at <= MAX_LATENCY

(***************************************************************************)
(* C3                                                                      *)
(***************************************************************************)
\* C3: when a pipeline stage has raised, the utterance is not abandoned:
\* by the time the thread is back at the top of its loop a fullSentence and
\* a recording_complete message have been sent for it.
C3_StageExceptionContinues ==
    (RunEnded /\ run.raised \in {"dedup", "disfluency", "grammar", "tone", "format"}) =>
        /\ Has(utterances, "fullSentence")
        /\ Has(utterances, "recording_complete")

(***************************************************************************)
(* C4                                                                      *)
(***************************************************************************)
\* C4: from a handled stop_recording until the next start_recording no new
\* utterance begins processing.
C4_NoNewUtteranceAfterStop == [][stopped => utterances' = utterances]_vars

(***************************************************************************)
(* C5                                                                      *)
(***************************************************************************)
\* C5: a run the override applies to sends exactly stage 1 with the raw
\* text, fullSentence with the learned output and recording_complete with
\* learned = true, in that order, and calls no pipeline step.  (Stated of
\* the utterance in hand: its messages are all sent while it is in hand.)
C5_OverrideEvents ==
    LET sent == EventsOf(utterances)
    IN  /\ Truthy(run.learned_output) =>
               /\ run.steps = << >>
               /\ IF pc = "branch"
                  THEN sent = << >>
                  ELSE /\ KindsOf(utterances) = LearnedKinds
                       /\ sent[1].text = run.full_sentence
                       /\ sent[2].text = run.learned_output.text
        /\ ShortCircuited(utterances) =>
               /\ KindsOf(utterances) = LearnedKinds
               /\ sent[3].learned
               /\ Truthy(run.learned_output)

\* the override has been applied and its three messages sent
C5_Overridden ==
    /\ RunEnded
    /\ Truthy(run.learned_output)
    /\ Len(EventsOf(utterances)) = 3
    /\ ~recording_active

(***************************************************************************)
(* C6                                                                      *)
(***************************************************************************)
\* the texts t of the stage messages of one utterance follow from one
\* another by the pipeline's steps
StageTextsFit(t) ==
    /\ (Len(t) >= 2) => (t[2] = dedupe_repetition(t[1]))
    /\ (Len(t) >= 3) => (t[3] = clean_text(t[2]))
    /\ (Len(t) >= 4) => (t[4] \in {correct_text(t[3]), t[3]})
    /\ (Len(t) >= 5) =>
           \/ t[4] = t[3] /\ t[5] = t[3]
           \/ \E m \in ToneModes :
                  transform(t[4], m) = [raised |-> FALSE, text |-> t[5]]

\* C6 as stated: every run that is not short-circuited calls dedup,
\* disfluency, grammar, tone, format in that order before stage 4 is sent,
\* and has sent stage 1..5, fullSentence, recording_complete once each, in
\* that order, stage k with the output of step k, when it ends.
C6_PipelineOrder ==
    ~Truthy(run.learned_output) =>
        /\ (pc \in {"emit", "store", "complete"}) => (run.steps = AllSteps)
        /\ RunEnded =>
               /\ KindsOf(utterances) = AllKinds
               /\ SubSeq(TextsOf(utterances), 1, 5) =
                      <<run.full_sentence, run.cleaned_sentence, run.filtered_sentence,
                        run.corrected_sentence, run.toned_sentence>>

\* C6, amended: for every utterance that is not short-circuited the steps
\* called are dedup, disfluency, grammar, tone, format in that order as far
\* as the run got, and only dedup and disfluency when the budget is
\* exceeded; the messages stage 1..5, fullSentence, recording_complete are
\* sent at most once each and in that order, all seven when
\* recording_complete is sent; stage 1 carries the raw text, stage 2 the
\* deduplicated, stage 3 the filtered, stage 4 the grammar-corrected text or
\* (grammar skipped or timed out) the filtered text, stage 5 the toned text
\* or (tone skipped) the filtered text.  An utterance's messages are all
\* sent while it is the one in hand, so the utterance in hand stands for all.
C6_PipelineOrderAmended ==
    LET kinds == KindsOf(utterances)
        texts == TextsOf(utterances)
    IN  ~ShortCircuited(utterances) =>
            /\ ~Truthy(run.learned_output) \/ pc = "branch"
            /\ IsPrefix(kinds, AllKinds)
            /\ StageTextsFit(texts)
            /\ Has(utterances, "recording_complete") => (kinds = AllKinds)
            /\ IsPrefix(run.steps, AllSteps)
            /\ (Len(kinds) >= 4) => (run.steps \in {AllSteps, SkipSteps})
            /\ (run.steps = SkipSteps /\ pc \in {"emit", "store", "complete"})
                   => (run.remaining_time <= MinRemaining)
            /\ (Len(kinds) >= 5) =>
                   (SubSeq(texts, 1, 5) =
                       <<run.full_sentence, run.cleaned_sentence, run.filtered_sentence,
                         run.corrected_sentence, run.toned_sentence>>)

\* a full run has ended: five steps, seven messages
C6_FullRunEnded ==
    /\ RunEnded
    /\ run.steps = AllSteps
    /\ KindsOf(utterances) = AllKinds
    /\ TextsOf(utterances)[4] # TextsOf(utterances)[3]
    /\ TextsOf(utterances)[5] # TextsOf(utterances)[4]

(***************************************************************************)
(* C7                                                                      *)
(***************************************************************************)
\* C7: when remaining_time is at most 0.1 s after the disfluency step,
\* neither grammar.correct_text nor tone_controller.transform is called and
\* final_sentence, corrected_sentence and toned_sentence (the texts of
\* fullSentence, stage 4 and stage 5) all equal filtered_sentence.
C7_BudgetSkip ==
    (pc \in {"emit", "store", "complete"} /\ run.remaining_time <= MinRemaining) =>
        /\ run.steps = SkipSteps
        /\ run.tone_mode = NotRead
        /\ run.final_sentence = run.filtered_sentence
        /\ run.corrected_sentence = run.filtered_sentence
        /\ run.toned_sentence = run.filtered_sentence
        /\ (pc # "emit") =>
               (SubSeq(TextsOf(utterances), 4, 6) =
                    <<run.filtered_sentence, run.filtered_sentence, run.filtered_sentence>>)

\* a run that was out of budget has sent its result
C7_Skipped ==
    /\ pc = "store"
    /\ run.remaining_time <= MinRemaining
    /\ run.filtered_sentence # EmptyText
    /\ Len(EventsOf(utterances)) = 6

(***************************************************************************)
(* C8                                                                      *)
(***************************************************************************)
\* C8: one run uses one tone mode: the mode the exact-match lookup got, the
\* mode tone_controller.transform got and the mode in the stored record are
\* the same.
C8_SingleToneMode ==
    /\ (pc \in {"format", "emit", "store", "complete"} /\ run.tone_mode # NotRead)
           => (run.tone_mode = run.lookup_mode)
    /\ (pc = "complete") =>
           (transcriptions[Len(transcriptions)].tone_mode = run.lookup_mode)

C10_StoreFailureStillCompletes ==
    (RunEnded /\ run.raised = "store") =>
        /\ Has(utterances, "fullSentence")
        /\ Has(utterances, "recording_complete")


(***************************************************************************)
(* Claims about echo and the stores, checked under StoreSpec               *)
(***************************************************************************)
\* C11: a control message with an unknown command, or one that is not valid
\* JSON, is passed over: the connection stays open, and the recording flag,
\* the tone mode and every table are as they were before it.
C11_OddMessageIgnored ==
    [][ignored' # ignored =>
          /\ connected'
          /\ recording_active' = recording_active
          /\ current_tone_mode' = current_tone_mode
          /\ corrections' = corrections
          /\ learned_rules' = learned_rules
          /\ feedback' = feedback
          /\ transcriptions' = transcriptions]_vars

\* an odd message was passed over while recording was on under a tone mode
\* the client had set
C11_PassedOver ==
    /\ ignored > 0
    /\ connected
    /\ recording_active
    /\ current_tone_mode = "casual"

\* row i of the table rules is among the rows get_learned_rules returns for
\* the row's tone mode with the default min_usage
Returned(rules, i) ==
    /\ i \in 1..Len(rules)
    /\ \A order \in get_learned_rules(rules, rules[i].tone_mode, 2) :
           \E k \in DOMAIN order : order[k] = i

\* C12: a learned rule with usage_count 1 is never returned by
\* get_learned_rules with min_usage 2; once a second correction with its
\* from-word, to-word and tone mode is recorded (usage_count 2) it is
\* returned, and it stays returned after every later operation.
C12_RuleActivation ==
    [][/\ \A i \in 1..Len(learned_rules') :
             /\ learned_rules'[i].usage_count = 1 => ~Returned(learned_rules', i)
             /\ learned_rules'[i].usage_count >= 2 => Returned(learned_rules', i)
       /\ \A i \in 1..Len(learned_rules) :
             Returned(learned_rules, i) =>
                 /\ Returned(learned_rules', i)
                 /\ learned_rules'[i].rule_key = learned_rules[i].rule_key]_vars

\* two corrections of this session made the rule gotta -> must active under
\* formal, go -> leave was seen once, and a later operation has been handled
C12_Activated ==
    /\ Len(corrections) = 2
    /\ commands = 0
    /\ \E i, j \in 1..Len(learned_rules) :
           /\ learned_rules[i].rule_key = RuleKey("gotta", "must", "formal")
           /\ learned_rules[i].usage_count = 2
           /\ Returned(learned_rules, i)
           /\ learned_rules[j].rule_key = RuleKey("go", "leave", "formal")
           /\ learned_rules[j].usage_count = 1

\* C13: after any sequence of store operations every learned rule has
\* usage_count >= 1, no operation lowers a rule's usage_count, and no
\* operation removes a rule.
C13_RulesAccumulate ==
    /\ [](\A i \in 1..Len(learned_rules) : learned_rules[i].usage_count >= 1)
    /\ [][\A i \in 1..Len(learned_rules) :
             \E j \in 1..Len(learned_rules') :
                 /\ learned_rules'[j].rule_key = learned_rules[i].rule_key
                 /\ learned_rules'[j].usage_count >= learned_rules[i].usage_count]_vars

\* three corrections of this session have counted gotta -> must three times
C13_Accumulated ==
    /\ Len(corrections) = 3
    /\ \E i \in 1..Len(learned_rules) :
           /\ learned_rules[i].rule_key = RuleKey("gotta", "must", "formal")
           /\ learned_rules[i].usage_count = 3

\* the positions (row of corrections, word index) at which the lower-case
\* original has the word from and the lower-case correction has the word to
Observed(from, to, tone_mode) ==
    UNION {{<<c, k>> :
               k \in {k \in 1..Min(Len(corrections[c].original_text),
                                    Len(corrections[c].corrected_output)) :
                         /\ WordString(LowerTok(corrections[c].original_text[k])) = from
                         /\ WordString(LowerTok(corrections[c].corrected_output[k])) = to}} :
           c \in {c \in 1..Len(corrections) : corrections[c].tone_mode = tone_mode}}

Occurs(sub, s) ==
    \E i \in 1..Len(s) : i + Len(sub) - 1 <= Len(s) /\ SubSeq(s, i, i + Len(sub) - 1) = sub

\* the table corrections holds exactly the corrections cmds, in that order
Recorded(cmds) ==
    /\ Len(corrections) = Len(cmds)
    /\ \A c \in 1..Len(cmds) :
           /\ corrections[c].original_text = cmds[c].original
           /\ corrections[c].corrected_output = cmds[c].user_correction
           /\ corrections[c].tone_mode = cmds[c].tone_mode

\* rule row i is the rule from -> to of tone_mode with usage_count n
IsRule(i, from, to, tone_mode, n) ==
    /\ learned_rules[i].from_word = from
    /\ learned_rules[i].to_word = to
    /\ learned_rules[i].tone_mode = tone_mode
    /\ learned_rules[i].usage_count = n

\* C15: apply_learned_rules replaces, in descending order of usage_count,
\* every literal occurrence of each active rule's from-word by its to-word,
\* and returns None exactly when the result equals the input.  After the
\* corrections "I gotta go" -> "I must leave" and "I gotta sleep" ->
\* "I must sleep" under formal the rule gotta -> must has usage_count 2 and
\* "I gotta eat" under formal gives "I must eat".
C15_ApplyRules ==
    /\ Recorded(<<GoLeaveFormal, SleepFormal>>) =>
           /\ \E i \in 1..Len(learned_rules) : IsRule(i, "gotta", "must", "formal", 2)
           /\ apply_learned_rules(learned_rules, IGottaEat, "formal")
                  = {Some(Chars(IMustEat))}
    /\ \A q \in Questions : \A m \in QuestionModes :
           LET rows == ActiveRows(learned_rules, m, 2)
               results == apply_learned_rules(learned_rules, q, m)
           IN  /\ results # {}
               /\ \A r \in results : r.some => r.text # Chars(q)
               \* no from-word occurs: nothing to replace, None
               /\ (\A i \in rows : ~Occurs(Letters(learned_rules[i].from_word), Chars(q)))
                      => results = {NoText}
               \* one active rule: each occurrence gives way to the to-word
               /\ \A i \in rows :
                      LET from == Letters(learned_rules[i].from_word)
                          to == Letters(learned_rules[i].to_word)
                      IN  rows = {i} /\ Occurs(from, Chars(q)) =>
                              \E r \in results :
                                  /\ results = {r}
                                  /\ r.some
                                  /\ Occurs(to, r.text)
                                  /\ Occurs(from, to) \/ ~Occurs(from, r.text)
               \* two active rules, the more used one feeding the other
               /\ \A i, j \in rows :
                      /\ rows = {i, j}
                      /\ learned_rules[i].usage_count > learned_rules[j].usage_count
                      /\ learned_rules[i].from_word = "gotta"
                      /\ learned_rules[i].to_word = "must"
                      /\ learned_rules[j].from_word = "must"
                      /\ learned_rules[j].to_word = "should"
                      /\ q = IGottaEat
                      => results = {Some(Chars(IShouldEat))}

\* the two corrections of the scenario are recorded, in this session, and
\* "I gotta eat" under formal gives "I must eat"
C15_GottaEat ==
    /\ Recorded(<<GoLeaveFormal, SleepFormal>>)
    /\ Some(Chars(IMustEat)) \in apply_learned_rules(learned_rules, IGottaEat, "formal")

\* the corrections recorded for the text q, whatever its case, under mode m
SameOriginal(q, m) ==
    {c \in 1..Len(corrections) :
        /\ \A k \in 1..Max(Len(q), Len(corrections[c].original_text)) :
               /\ k <= Len(q)
               /\ k <= Len(corrections[c].original_text)
               /\ corrections[c].original_text[k].w = q[k].w
               /\ corrections[c].original_text[k].p = q[k].p
        /\ corrections[c].tone_mode = m}

\* how many of them carry the corrected output o
Occurrences(q, m, o) ==
    Cardinality({c \in SameOriginal(q, m) : corrections[c].corrected_output = o})

\* C16: check_exact_match returns none only when no correction has the same
\* original (case-insensitive) and tone mode; otherwise it returns a
\* corrected output with the largest number of occurrences among the
\* corrections of that original and tone mode.
C16_ExactMatch ==
    \A q \in Questions : \A m \in QuestionModes :
        LET results == check_exact_match(corrections, q, m)
            same == SameOriginal(q, m)
            occurrences == [o \in {corrections[c].corrected_output : c \in same} |->
                               Occurrences(q, m, o)]
        IN  /\ results = {} <=> same = {}
            /\ \A o \in results :
                   /\ o \in DOMAIN occurrences
                   /\ \A o2 \in DOMAIN occurrences : occurrences[o2] <= occurrences[o]

\* "I gotta go" under formal was corrected to "I must go" more often than
\* to "I must leave", in lower and in upper case, and not under casual
C16_MostFrequent ==
    /\ check_exact_match(corrections, IGottaGo, "formal") = {IMustGo}
    /\ Occurrences(IGottaGo, "formal", IMustLeave) >= 1
    /\ \E c \in SameOriginal(IGottaGo, "formal") : corrections[c].original_text = IGottaGo
    /\ \E c \in SameOriginal(IGottaGo, "formal") : corrections[c].original_text # IGottaGo
    /\ check_exact_match(corrections, IGottaGo, "casual") = {}

\* the corrections a process started now would load from feedback_memory.json
Persisted(file) == load_memory(file).corrections

\* C17: every correction whose record operation has returned is still in
\* the persisted state after a crash and restart at any later point, a crash
\* during a later write included: no step takes a correction out of the
\* corrections table or out of what feedback_memory.json loads as.
C17_CorrectionsSurvive ==
    [][/\ IsPrefix(corrections, corrections')
       /\ IsPrefix(Persisted(memory_file), Persisted(memory_file'))]_vars

\* C19: check_memory returns None for an input while only one correction
\* has been recorded, also when the input is that correction's original; it
\* returns a learned result only once two or more corrections support it.
C19_OneCorrectionNoAnswer ==
    \A q \in Questions : \A m \in QuestionModes :
        /\ Len(memory.corrections) = 1 => check_memory(memory, q, m) = NoText
        /\ check_memory(memory, q, m).some =>
               Cardinality({c \in 1..Len(memory.corrections) :
                               memory.corrections[c].tone_mode = m}) >= 2

\* the rows of the feedback table of one kind
Entries(kind) == {i \in 1..Len(feedback) : feedback[i].feedback_type = kind}

\* C18: after any sequence of approve and reject commands the accuracy
\* reported is approvals / (approvals + rejections) over all the feedback
\* entries recorded so far, and 0 when there is none: FeedbackMemory's
\* accuracy_score over its approved and rejected lists, and
\* get_accuracy_stats, as a percentage to one decimal, over the feedback table.
C18_Accuracy ==
    /\ LET approvals == Len(memory.approved)
           total == approvals + Len(memory.rejected)
       IN  IF total = 0 THEN memory.accuracy_score = Zero
           ELSE memory.accuracy_score.num * total = approvals * memory.accuracy_score.den
    /\ LET approvals == Cardinality(Entries("approve"))
           total == approvals + Cardinality(Entries("reject"))
           accuracy == get_accuracy_stats(feedback).accuracy
       IN  IF total = 0 THEN accuracy = 0
           ELSE /\ 2 * (accuracy * total - 1000 * approvals) <= total
                /\ 2 * (1000 * approvals - accuracy * total) <= total

\* one approval and two rejections are recorded, in the table and in the
\* memory: a third, 33.3 %
C18_OneOfThree ==
    /\ Cardinality(Entries("approve")) = 1
    /\ Cardinality(Entries("reject")) = 2
    /\ Len(memory.approved) = 1
    /\ Len(memory.rejected) = 2
    /\ memory.accuracy_score = [num |-> 1, den |-> 3]
    /\ get_accuracy_stats(feedback).accuracy = 333

\* the rules get_learned_rules returns for tone_mode, as from-word, to-word,
\* usage_count
ActiveRules(rules, tone_mode) ==
    {<<rules[i].from_word, rules[i].to_word, rules[i].usage_count>> :
        i \in ActiveRows(rules, tone_mode, 2)}

\* this step is a feedback command recording a correction under tone_mode
Records(tone_mode) ==
    /\ Len(corrections') = Len(corrections) + 1
    /\ Len(memory'.corrections) = Len(memory.corrections) + 1
    /\ corrections'[Len(corrections')].tone_mode = tone_mode

\* C20: recording corrections under tone mode A never changes what
\* check_exact_match, get_learned_rules, apply_learned_rules or check_memory
\* give under a different tone mode B.
C20_ToneIsolation ==
    [][\A a \in {"neutral", "formal", "casual"} :
          Records(a) =>
              \A b \in QuestionModes \ {a} :
                  /\ ActiveRules(learned_rules', b) = ActiveRules(learned_rules, b)
                  /\ \A q \in Questions :
                         /\ check_exact_match(corrections', q, b)
                                = check_exact_match(corrections, q, b)
                         /\ apply_learned_rules(learned_rules', q, b)
                                = apply_learned_rules(learned_rules, q, b)
                         /\ check_memory(memory', q, b) = check_memory(memory, q, b)]_vars

\* the last correction was recorded under casual, where its rule
\* gotta -> must is now active, while formal has corrections, active rules
\* and a remembered answer of its own
C20_CasualBesideFormal ==
    /\ corrections # << >>
    /\ corrections[Len(corrections)].tone_mode = "casual"
    /\ Len(memory.corrections) = Len(corrections)
    /\ ActiveRules(learned_rules, "casual") # {}
    /\ ActiveRules(learned_rules, "formal") # {}
    /\ check_exact_match(corrections, IGottaGo, "formal") # {}
    /\ check_memory(memory, IGottaGo, "formal").some
    /\ Some(Chars(IShouldEat)) \in apply_learned_rules(learned_rules, IGottaEat, "formal")

(***************************************************************************)
(* C29                                                                     *)
(***************************************************************************)
\* the grammar-corrected text of every stored record is its own utterance's
\* filtered text or that text corrected
OwnCorrection ==
    \A i \in 1..Len(transcriptions) :
        transcriptions[i].grammar_corrected
            \in {transcriptions[i].filtered_text, correct_text(transcriptions[i].filtered_text)}

\* C29: when the grammar worker does not finish within its timeout, stage 4
\* carries the filtered text, the tone step gets the filtered text and the
\* stored record holds it as the grammar-corrected text; what the worker
\* returns afterwards is in no message and no record of this utterance, and
\* a later utterance's record is made from that utterance's own texts.
C29_TimeoutKeepsFiltered ==
    /\ OwnCorrection
    /\ run.timed_out =>
           LET toned == transform(run.filtered_sentence, run.tone_mode)
               texts == TextsOf(utterances)
           IN  /\ run.corrected_sentence = run.filtered_sentence
               /\ (Len(texts) >= 4) => (texts[4] = run.filtered_sentence)
               /\ (pc \in {"format", "emit", "store", "complete"}) =>
                      (~toned.raised /\ run.toned_sentence = toned.text)
               /\ (Len(texts) >= 6) =>
                      /\ texts[5] = toned.text
                      /\ texts[6] = format_text(toned.text)
               /\ \A i \in RecordsOf(utterances) :
                      /\ transcriptions[i].grammar_corrected = run.filtered_sentence
                      /\ transcriptions[i].tone_transformed = toned.text
                      /\ transcriptions[i].final_output = format_text(toned.text)

\* a run whose grammar step timed out has been stored, the worker's result
\* differing from the filtered text, and a later utterance is in hand
C29_TimedOutStored ==
    /\ utterances = 2
    /\ \E i \in RecordsOf(1) :
           /\ transcriptions[i].grammar_corrected = transcriptions[i].filtered_text
           /\ correct_text(transcriptions[i].filtered_text) # transcriptions[i].filtered_text
           /\ transcriptions[i].tone_transformed # transcriptions[i].filtered_text
    /\ run.timed_out
    /\ RecordsOf(2) # {}

(***************************************************************************)
(* C30                                                                     *)
(***************************************************************************)
\* C30: whenever the grammar step is run, its timeout is
\* min(0.3, remaining - 0.1) with remaining = 1.5 - elapsed - 0.05; it is
\* strictly positive, at most 0.3 s, and elapsed + timeout is at most 1.5 s.
C30_GrammarTimeoutBounds ==
    (pc = "grammar") =>
        LET elapsed == clock
            remaining == MAX_LATENCY - elapsed - ReserveFinal
        IN  /\ run.remaining_time = remaining
            /\ run.grammar_timeout = Min(GrammarCap, remaining - GrammarMargin)
            /\ run.grammar_timeout > 0
            /\ run.grammar_timeout <= GrammarCap
            /\ elapsed + run.grammar_timeout <= MAX_LATENCY

\* the grammar step runs with the least budget that allows it: remaining
\* 0.15 s, timeout 0.05 s
C30_LeastBudget ==
    /\ pc = "grammar"
    /\ run.remaining_time = MinRemaining + 1
    /\ run.grammar_timeout = 1

(***************************************************************************)
(* C21                                                                     *)
(***************************************************************************)
\* C21: deduplication is idempotent: dedupe(dedupe(x)) = dedupe(x) for
\* every token sequence x, a phrase repeated three or more times included.
C21_DedupeIdempotent ==
    (fn = "dedupe_repetition" /\ Len(returned) >= 2) => (returned[2] = returned[1])

(***************************************************************************)
(* C22                                                                     *)
(***************************************************************************)
RECURSIVE IsSubsequence(_, _)
\* s is t with some of its elements left out
IsSubsequence(s, t) ==
    IF s = << >> THEN TRUE
    ELSE IF t = << >> THEN FALSE
    ELSE IF Head(s) = Head(t) THEN IsSubsequence(Tail(s), Tail(t))
    ELSE IsSubsequence(s, Tail(t))

\* C22: the tokens of dedupe's output are a subsequence of the tokens of
\* its input: not more tokens, no token the input does not have, and the
\* surviving tokens in the input's order.
C22_DedupeSubsequence ==
    (fn = "dedupe_repetition") =>
        \A i \in 1..Len(returned) :
            LET input == IF i = 1 THEN arg ELSE returned[i-1]
            IN  /\ Len(returned[i]) <= Len(input)
                /\ \A j \in 1..Len(returned[i]) :
                       \E k \in 1..Len(input) : input[k] = returned[i][j]
                /\ IsSubsequence(returned[i], input)

\* a text with a capitalized token has lost a repetition and kept three
\* tokens, the capitalized one among them
C22_RepetitionRemoved ==
    /\ fn = "dedupe_repetition"
    /\ Len(returned) = 1
    /\ Len(returned[1]) = 3
    /\ Len(arg) = 5
    /\ \E j \in 1..3 : returned[1][j].cap

(***************************************************************************)
(* C23                                                                     *)
(***************************************************************************)
\* C23: the neutral tone transformation is idempotent:
\* transform(transform(x, 'neutral'), 'neutral') = transform(x, 'neutral').
C23_NeutralIdempotent ==
    (fn = "transform" /\ Len(returned) >= 2) => (returned[2] = returned[1])

(***************************************************************************)
(* C24                                                                     *)
(***************************************************************************)
\* C24: correct_text never raises; when a sub-rule fails it returns the
\* input with its first letter capitalized and a terminal . ! or ? ensured
\* (the input's own, or an added full stop), and it returns an empty or
\* whitespace-only input unchanged.
C24_GrammarNeverRaises ==
    (fn = "correct_text" /\ returned # << >>) =>
        LET r == returned[1]
            n == Len(arg)
        IN  /\ ~r.raised
            /\ (arg = EmptyText) => (r.text = arg)
            /\ (arg # EmptyText /\ failure # "none") =>
                   /\ Len(r.text) = n
                   /\ \A i \in 1..n :
                          /\ r.text[i].w = arg[i].w
                          /\ r.text[i].cap = (arg[i].cap \/ (i = 1 /\ arg[i].w # ""))
                          /\ (i < n) => (r.text[i].p = arg[i].p)
                   /\ r.text[n].p =
                          (IF EndsSentence(arg[n].p) THEN arg[n].p ELSE arg[n].p \o ".")

\* a sub-rule has failed on a lower-case text without a full stop
C24_FellBack ==
    /\ fn = "correct_text"
    /\ failure = "fix_word_order"
    /\ arg = Text(<<"a", "tomorrow", "apple">>)
    /\ returned = <<[raised |-> FALSE,
                     text |-> <<CapTok("a"), Tok("tomorrow"),
                                [w |-> "apple", cap |-> FALSE, p |-> "."]>>]>>

(***************************************************************************)
(* C25                                                                     *)
(***************************************************************************)
\* the words of a text, capitals and punctuation left out
WordsOf(text) == [i \in 1..Len(text) |-> text[i].w]

\* C25: correct_text applies its sub-rules once each in the order lower
\* case, common mistakes, double negatives, word order, articles,
\* capitalization, punctuation, spacing; 'i have a tomorrow match' gives
\* 'I have a match tomorrow.', and 'a' + time word + vowel-initial noun
\* ends as 'an <noun> <time word>'.
C25_GrammarOrder ==
    (fn = "correct_text" /\ failure = "none" /\ returned # << >>) =>
        LET out == returned[1].text
            m == Len(out)
        IN  /\ out = (IF arg = EmptyText THEN arg
                      ELSE fix_spacing(add_punctuation(fix_capitalization(fix_articles(
                               fix_word_order(fix_double_negatives(fix_common_mistakes(
                                   Lower(arg)))))))))
            /\ (arg = IHaveATomorrowMatch) =>
                   (out = <<CapTok("i"), Tok("have"), Tok("a"), Tok("match"),
                            [w |-> "tomorrow", cap |-> FALSE, p |-> "."]>>)
            /\ \A prefix \in {<< >>, <<"i", "have">>}, t \in SampleTimeWords,
                  noun \in SampleNouns \cap VowelInitial :
                   (arg = ArticleTimeNoun(prefix, t, noun)) =>
                       /\ WordsOf(out) = prefix \o <<"an", noun, t>>
                       /\ out[m].p = "."

\* 'i have a tomorrow apple' has become 'I have an apple tomorrow.'
C25_AnAppleTomorrow ==
    /\ fn = "correct_text"
    /\ failure = "none"
    /\ arg = ArticleTimeNoun(<<"i", "have">>, "tomorrow", "apple")
    /\ returned # << >>
    /\ returned[1].text = <<CapTok("i"), Tok("have"), Tok("an"), Tok("apple"),
                             [w |-> "tomorrow", cap |-> FALSE, p |-> "."]>>

(***************************************************************************)
(* C27                                                                     *)
(***************************************************************************)
\* C27: is_question checks its exclusion patterns before its acceptance
\* rules: a text matching an exclusion pattern (one beginning "what I'm" or
\* "what a", or containing "know what to" or "tell me what") is never
\* classified as a question, even when its first word is a question or
\* auxiliary word; a text matching no exclusion is a question when its first
\* word is a question or auxiliary word.
C27_ExclusionsFirst ==
    (fn = "is_question" /\ returned # << >>) =>
        LET t == Lower(arg)
        IN  /\ Excluded(t) => (returned[1] = FALSE)
            /\ (~Excluded(t) /\ StartsQuestion(t)) => (returned[1] = TRUE)
            /\ (arg \in {Text(<<"what", "i'm", "a">>), Text(<<"what", "a", "day">>),
                          Text(<<"what", "we", "need">>), Text(<<"know", "what", "to">>),
                          Text(<<"tell", "me", "what">>), WhatIAmTryingToSay,
                          DoYouKnowWhatToDo, CanYouTellMeWhatever})
                   => (returned[1] = FALSE)
            /\ (arg \in {Text(<<"what", "is", "a">>), Text(<<"is", "a", "day">>),
                          Text(<<"what">>), <<CapTok("what"), Tok("day")>>})
                   => (returned[1] = TRUE)

\* "do you know what to do" begins with an auxiliary word and is no question
C27_ExcludedAuxiliary ==
    /\ fn = "is_question"
    /\ arg = DoYouKnowWhatToDo
    /\ StartsQuestion(arg)
    /\ returned = <<FALSE>>

(***************************************************************************)
(* C26                                                                     *)
(***************************************************************************)
\* C26: detect_break_type(d) is 'paragraph' exactly when d >= paragraph_pause,
\* 'sentence' exactly when sentence_pause <= d < paragraph_pause, 'none'
\* otherwise; with the pauses 2.0 and 5.0 s it is none for 1.0 s, sentence
\* for 2.0 and 2.5 s, paragraph for 5.0 and 6.0 s.
C26_BreakType ==
    (answer.call = "detect_break_type") =>
        LET d == answer.duration
            sp == detector.sentence_pause
            pp == detector.paragraph_pause
        IN  /\ (answer.result = "paragraph") <=> (d >= pp)
            /\ (answer.result = "sentence") <=> (sp <= d /\ d < pp)
            /\ (answer.result = "none") <=> ~(d >= pp \/ (sp <= d /\ d < pp))
            /\ (sp = 4 /\ pp = 10) =>
                   /\ (d = 2) => (answer.result = "none")
                   /\ (d \in {4, 5}) => (answer.result = "sentence")
                   /\ (d \in {10, 12}) => (answer.result = "paragraph")

\* a silence of exactly sentence_pause, 2.0 s, is a sentence break, the
\* detector being in a silence of its own
C26_SentenceAtThreshold ==
    /\ answer = [call |-> "detect_break_type", duration |-> 4, result |-> "sentence"]
    /\ detector.sentence_pause = 4
    /\ detector.paragraph_pause = 10
    /\ detector.is_silent

(***************************************************************************)
(* C28                                                                     *)
(***************************************************************************)
\* C28: after any sequence of mark_voice_activity and mark_silence_start
\* calls, reset() leaves the detector as a freshly constructed one (not
\* silent, no silence start, silence duration 0 then and later) with the
\* pauses it was configured with, and no call ever changes the pauses.
C28_ResetFresh ==
    [][/\ detector'.sentence_pause = detector.sentence_pause
       /\ detector'.paragraph_pause = detector.paragraph_pause
       /\ (Len(calls') > Len(calls) /\ calls'[Len(calls')] = "reset") =>
              /\ detector' = ParagraphDetector(detector.sentence_pause,
                                               detector.paragraph_pause, wallclock)
              /\ ~detector'.is_silent
              /\ detector'.silence_start = None
              /\ \A t \in wallclock..(MaxTime + 1) :
                     get_silence_duration(detector', t) = 0]_vars

\* the detector was marked silent, then reset at a later time
C28_ResetAfterSilence ==
    /\ Len(calls) >= 2
    /\ calls[Len(calls) - 1] = "mark_silence_start"
    /\ calls[Len(calls)] = "reset"
    /\ detector.last_voice_time > 1
    /\ ~detector.is_silent

(***************************************************************************)
(* C39                                                                     *)
(***************************************************************************)
\* how often token x occurs in text
TimesIn(x, text) == Cardinality({i \in 1..Len(text) : text[i] = x})

\* C39: fix_word_order only permutes tokens: its output has the same
\* multiset of tokens as its input, also when the article/time-word
\* reordering and the frequency-adverb swap both apply to one sentence, and
\* it returns.
C39_WordOrderPermutes ==
    (fn = "fix_word_order" /\ returned # << >>) =>
        LET out == returned[1]
        IN  /\ Len(out) = Len(arg)
            /\ \A i \in 1..Len(arg) : TimesIn(arg[i], out) = TimesIn(arg[i], arg)

\* both patterns have moved words of one sentence: 'a tomorrow always' has
\* become 'always a tomorrow'
C39_BothPatterns ==
    /\ fn = "fix_word_order"
    /\ arg = Text(<<"a", "tomorrow", "always">>)
    /\ returned = <<Text(<<"always", "a", "tomorrow">>)>>

(***************************************************************************)
(* C33                                                                     *)
(***************************************************************************)
\* C33: transform returns a string without raising for every text, also one
\* that is empty or becomes empty when normalized, and for every mode
\* string; a mode it does not know gives the normalized text.
C33_TransformNeverRaises ==
    (fn = "transform in a mode" /\ returned # << >>) =>
        /\ ~returned[1].raised
        /\ (arg.mode \notin {"formal", "casual"}) => (returned[1].text = normalize(arg.text))

\* C31: starting from empty stores, no learned rule is active (usage count 2
\* or more in learned_rules, count 2 or more in the feedback memory) while
\* only one correction has been recorded, whatever its texts and tone mode.
C31_OneCorrectionNoActiveRule ==
    (Len(corrections) <= 1 /\ Len(memory.corrections) <= 1) =>
        /\ \A i \in 1..Len(learned_rules) : learned_rules[i].usage_count < 2
        /\ \A i \in 1..Len(memory.rules) : memory.rules[i].count < 2

\* C32: a rule is identified by its from-word, to-word and tone mode, also
\* when a word or a tone mode holds the arrow or the colon of the rule key:
\* the usage count of a row is the number of observations of the row's own
\* from-word, to-word and tone mode.
C32_RulesByTriple ==
    \A i \in 1..Len(learned_rules) :
        learned_rules[i].usage_count =
            Cardinality(Observed(learned_rules[i].from_word,
                                 learned_rules[i].to_word,
                                 learned_rules[i].tone_mode))

\* C37: from two empty stores, after any sequence of approve, reject,
\* feedback and auto_improve commands that all complete, the database and the
\* feedback memory hold the same number of corrections, of approvals and of
\* rejections, and the same usage count for every rule.
C37_StoresConsistent ==
    /\ Len(memory.corrections) = Len(corrections)
    /\ Len(memory.approved) = FeedbackCount(feedback, "approve")
    /\ Len(memory.rejected) = FeedbackCount(feedback, "reject")
    /\ \A i \in 1..Len(learned_rules) :
           \E j \in 1..Len(memory.rules) :
               /\ memory.rules[j].rule_key = learned_rules[i].rule_key
               /\ memory.rules[j].count = learned_rules[i].usage_count
    /\ \A j \in 1..Len(memory.rules) :
           \E i \in 1..Len(learned_rules) :
               learned_rules[i].rule_key = memory.rules[j].rule_key

\* C34: SilenceTracker.get_stats always returns: no thread that has called
\* get_stats is left waiting for the tracker's lock while it holds that
\* lock itself.
C34_GetStatsReturns ==
    \A th \in Threads :
        ~(/\ threads[th].caller = "get_stats"
          /\ threads[th].pc = "get_current_silence_duration"
          /\ tracker.lock = th)

\* the index of the last call of one of names, 0 when there is none
LastOf(names) ==
    LET among == {i \in 1..Len(calls) : calls[i] \in names}
    IN  IF among = {} THEN 0 ELSE CHOOSE i \in among : \A j \in among : j <= i

\* when the first call of silence after the last call of voice was made
SilenceBegan(voice, silence) ==
    LET marks == {i \in (LastOf(voice) + 1)..Len(calls) : calls[i] \in silence}
    IN  IF marks = {} THEN None
        ELSE At(times[CHOOSE i \in marks : \A j \in marks : i <= j])

\* C38: in the paragraph detector and in the silence tracker, after any
\* sequence of mark-voice, mark-silence and reset calls the silent flag is
\* set exactly when a silence start time is recorded, and the start recorded
\* is the time of the first mark-silence call after the last call that
\* records voice activity (mark-voice, or reset, which sets the voice time
\* too): later mark-silence calls of the same silent period do not move it,
\* and the silence duration is measured from it.
C38_SilenceClock ==
    LET began == SilenceBegan({"mark_voice_activity", "reset"}, {"mark_silence_start"})
        tracker_began == SilenceBegan({"mark_speech", "SilenceTracker.reset"},
                                      {"mark_silence"})
    IN  /\ detector.is_silent <=> detector.silence_start.some
        /\ detector.silence_start = began
        /\ get_silence_duration(detector, wallclock) =
               IF began.some THEN wallclock - began.at ELSE 0
        /\ tracker.is_currently_silent <=> tracker.silence_start_time.some
        /\ tracker.silence_start_time = tracker_began
        /\ get_current_silence_duration(tracker, wallclock) =
               IF tracker_began.some THEN wallclock - tracker_began.at ELSE 0

\* mark-silence was called twice in one silent period, the second time later
\* than the first, on the detector or on the tracker
C38_MarkedTwice ==
    \E i, j \in 1..Len(calls) :
        /\ i < j
        /\ calls[i] = calls[j]
        /\ calls[i] \in {"mark_silence_start", "mark_silence"}
        /\ times[i] < times[j]
        /\ wallclock > times[j]
        /\ IF calls[i] = "mark_silence"
           THEN LastOf({"mark_speech", "SilenceTracker.reset"}) < i
           ELSE LastOf({"mark_voice_activity", "reset"}) < i

\* C35: at most one utterance is processed per start_recording command: the
\* number of utterances that have begun processing never exceeds the number
\* of start_recording commands handled.
C35_OneUtterancePerStart == utterances <= started.handled

\* C36: a start_recording handled while a pipeline run is in flight, with no
\* stop_recording after it, is not lost: once that run has completed and the
\* thread is back at recording_active.wait(), the flag is still set.
C36_StartNotLost ==
    (/\ pc = "wait"
     /\ utterances > 0
     /\ started.during = utterances
     /\ run.raised = NotRead) => recording_active

=============================================================================
